---------------------------- MODULE Spec2Model ----------------------------
(***************************************************************************)
(* Reflow of OCR-extracted legal transcripts with inline line numbers.     *)
(*                                                                         *)
(* Two programs are modelled:                                              *)
(*   - the offset-tracking reflow that update_notebook.py writes into the  *)
(*     notebook (reflow_document_with_offsets and the functions it calls), *)
(*   - the plain reflow of reflow_markdown_with_line_numbers.py            *)
(*     (reflow_document and the functions it calls).                       *)
(* Spec runs both on one document.  SpecUnits applies the geometry parser  *)
(* and the classifier to one descriptor or one text, and SpecDemo runs the *)
(* tests of demo_offset_visualization.py on its sample data.               *)
(*                                                                         *)
(* Text is a sequence of one-character strings.  Coordinates are integers  *)
(* in hundredths of the document's unit, so the tolerance 0.15 is 15 and   *)
(* comparisons are exact.                                                  *)
(*                                                                         *)
(* The offset-tracking functions live in a string template of              *)
(* update_notebook.py.  Its escapes (the newline written \\n, the          *)
(* parenthesis of the descriptor pattern written \\( ) are read the way    *)
(* the sibling templates of the same file use them: \\n is the newline     *)
(* character and \\( the literal parenthesis.                              *)
(***************************************************************************)
EXTENDS Integers, Sequences, FiniteSets, TLC

(***************************************************************************)
(* Bounds of the model.                                                    *)
(***************************************************************************)
\* lines of a page in a single-page document
MaxLines == 3
\* pages of a multi-page document
MaxPages == 2

(***************************************************************************)
(* Strings.                                                                *)
(***************************************************************************)
NL == "\n"

Range(s) == {s[i] : i \in 1..Len(s)}

Digits == {"0", "1", "2", "3", "4", "5", "6", "7", "8", "9"}

Letters == {"a", "b", "c", "d", "x", "I", "N", "D", "E", "X", "P", "g", "e"}

DigitValue(c) == CASE c = "0" -> 0 [] c = "1" -> 1 [] c = "2" -> 2 [] c = "3" -> 3
                   [] c = "4" -> 4 [] c = "5" -> 5 [] c = "6" -> 6 [] c = "7" -> 7
                   [] c = "8" -> 8 [] c = "9" -> 9

DigitChar(d) == CASE d = 0 -> "0" [] d = 1 -> "1" [] d = 2 -> "2" [] d = 3 -> "3"
                  [] d = 4 -> "4" [] d = 5 -> "5" [] d = 6 -> "6" [] d = 7 -> "7"
                  [] d = 8 -> "8" [] d = 9 -> "9"

\* int(s) of a string of decimal digits
RECURSIVE StrToInt(_)
StrToInt(s) == IF s = <<>> THEN 0
               ELSE 10 * StrToInt(SubSeq(s, 1, Len(s) - 1)) + DigitValue(s[Len(s)])

\* str(n) of a natural number, as the f-string formats it
RECURSIVE IntToStr(_)
IntToStr(n) == IF n < 10 THEN <<DigitChar(n)>>
               ELSE IntToStr(n \div 10) \o <<DigitChar(n % 10)>>

\* s.strip(): leading and trailing blanks removed
RECURSIVE Strip(_)
Strip(s) == IF s = <<>> THEN s
            ELSE IF Head(s) = " " THEN Strip(Tail(s))
            ELSE IF s[Len(s)] = " " THEN Strip(SubSeq(s, 1, Len(s) - 1))
            ELSE s

\* sep.join(parts)
RECURSIVE Join(_, _)
Join(sep, parts) == IF parts = <<>> THEN <<>>
                    ELSE IF Len(parts) = 1 THEN parts[1]
                    ELSE parts[1] \o sep \o Join(sep, Tail(parts))

\* text[start:end] for 0 <= start, 0 <= end, with Python's clamping
Slice(text, start, end) ==
    LET hi == IF end > Len(text) THEN Len(text) ELSE end
    IN  IF start >= hi THEN <<>> ELSE SubSeq(text, start + 1, hi)

\* characters str.isdigit() accepts and int() rejects (the superscript two, one
\* character)
OtherDigits == {"SUPERSCRIPT_TWO"}

\* str.isdigit() on a non-empty string; the empty string is not a digit string
IsDigitStr(s) == s # <<>> /\ \A i \in 1..Len(s) : s[i] \in Digits \cup OtherDigits

\* int(s) raises ValueError on a string str.isdigit() accepts
IntRaises(s) == \E i \in 1..Len(s) : s[i] \in OtherDigits

\* str.isalnum() of one character
IsAlnumChar(c) == c \in Digits \cup OtherDigits \cup Letters

(***************************************************************************)
(* Geometry parser and element classifier.                                 *)
(***************************************************************************)
\* A source descriptor is a record [form, page, coords]:
\*   form = "empty"       the empty string
\*   form = "nomatch"     a string that does not match D(page,...)
\*   form = "nonnumeric"  D(page, ...) with a coordinate float() rejects
\*   form = "coords"      D(page, c1, ..., cN) with numeric coordinates
Min2(a, b) == IF a <= b THEN a ELSE b

Max2(a, b) == IF a >= b THEN a ELSE b

\* the result of a call that raises ValueError
ParseError ==
    [ok |-> FALSE, page_number |-> 0, left_x |-> 0, top_y |-> 0,
     right_x |-> 0, bottom_y |-> 0]

\* mutant: the top of a quadrilateral is taken from its left corners
parse_source_coordinates_top_of_left_corners(source) ==
    IF source.form # "coords" THEN ParseError
    ELSE LET c == source.coords IN
         IF Len(c) = 8
         THEN [ok |-> TRUE, page_number |-> source.page,
               left_x |-> Min2(c[1], c[7]), top_y |-> Min2(c[2], c[8]),
               right_x |-> Max2(c[3], c[5]), bottom_y |-> Max2(c[6], c[8])]
         ELSE IF Len(c) = 4
         THEN [ok |-> TRUE, page_number |-> source.page,
               left_x |-> c[1], top_y |-> c[2],
               right_x |-> c[1] + c[3], bottom_y |-> c[2] + c[4]]
         ELSE ParseError

\* mutant: the four coordinates are read as left, top, right, bottom
parse_source_coordinates_box_as_corners(source) ==
    IF source.form # "coords" THEN ParseError
    ELSE LET c == source.coords IN
         IF Len(c) = 8
         THEN [ok |-> TRUE, page_number |-> source.page,
               left_x |-> Min2(c[1], c[7]), top_y |-> Min2(c[2], c[4]),
               right_x |-> Max2(c[3], c[5]), bottom_y |-> Max2(c[6], c[8])]
         ELSE IF Len(c) = 4
         THEN [ok |-> TRUE, page_number |-> source.page,
               left_x |-> c[1], top_y |-> c[2],
               right_x |-> c[3], bottom_y |-> c[4]]
         ELSE ParseError

parse_source_coordinates(source) ==
    IF source.form # "coords"
    THEN ParseError
    ELSE LET c == source.coords IN
         IF Len(c) = 8
         THEN [ok |-> TRUE, page_number |-> source.page,
               left_x |-> Min2(c[1], c[7]), top_y |-> Min2(c[2], c[4]),
               right_x |-> Max2(c[3], c[5]), bottom_y |-> Max2(c[6], c[8])]
         ELSE IF Len(c) = 4
         THEN [ok |-> TRUE, page_number |-> source.page,
               left_x |-> c[1], top_y |-> c[2],
               right_x |-> c[1] + c[3], bottom_y |-> c[2] + c[4]]
         ELSE ParseError

\* is_line_number raises ValueError: isdigit() holds and int() fails
is_line_number_raises(content) ==
    LET t == Strip(content)
    IN  IsDigitStr(t) /\ IntRaises(t)

\* mutant: the range test admits zero
is_line_number_from_zero(content) ==
    LET t == Strip(content)
    IN  IsDigitStr(t) /\ ~IntRaises(t) /\ 0 <= StrToInt(t) /\ StrToInt(t) <= 99

\* the value is_line_number returns, when it returns
is_line_number(content) ==
    LET t == Strip(content)
    IN  IsDigitStr(t) /\ ~IntRaises(t) /\ 1 <= StrToInt(t) /\ StrToInt(t) <= 99

\* the three glyphs of the list ['\u00b7', '\u2022', '\u2219'], one character each
NoiseGlyphs == {"MIDDLE_DOT", "BULLET", "BULLET_OPERATOR"}

is_noise_element(content) ==
    LET t == Strip(content)
    IN  \/ (Len(t) = 1 /\ t[1] \in NoiseGlyphs)
        \/ (Len(t) = 1 /\ ~IsAlnumChar(t[1]))

(***************************************************************************)
(* Extraction of the lines of a page (offset-tracking variant).            *)
(***************************************************************************)
LineElement(content, parsed, source) ==
    [content |-> content, y_position |-> parsed.top_y, x_position |-> parsed.left_x,
     page_number |-> parsed.page_number, is_line_number |-> is_line_number(content),
     bbox |-> source]

\* mutant: a source that does not parse discards the lines collected so far
extract_line_restarts_at_bad_source(lines, line) ==
    LET content == Strip(line.content)
        parsed == parse_source_coordinates(line.source)
    IN  IF content = <<>> \/ is_noise_element(content) THEN lines
        ELSE IF line.source.form = "empty" THEN lines
        ELSE IF ~parsed.ok THEN <<>>
        ELSE IF is_line_number_raises(content) THEN lines
        ELSE Append(lines, LineElement(content, parsed, line.source))

\* mutant: noise is not skipped
extract_line_keeps_noise(lines, line) ==
    LET content == Strip(line.content)
        parsed == parse_source_coordinates(line.source)
    IN  IF content = <<>> THEN lines
        ELSE IF line.source.form = "empty" THEN lines
        ELSE IF ~parsed.ok THEN lines
        ELSE IF is_line_number_raises(content) THEN lines
        ELSE Append(lines, LineElement(content, parsed, line.source))

\* one iteration of the loop over page_data['lines']
extract_line(lines, line) ==
    LET content == Strip(line.content)
        parsed == parse_source_coordinates(line.source)
    IN  IF content = <<>> \/ is_noise_element(content) THEN lines
        ELSE IF line.source.form = "empty" THEN lines
        ELSE IF ~parsed.ok THEN lines
        ELSE IF is_line_number_raises(content) THEN lines
        ELSE Append(lines, LineElement(content, parsed, line.source))

RECURSIVE extract_lines_from(_, _)
extract_lines_from(raw, lines) ==
    IF raw = <<>> THEN lines
    ELSE extract_lines_from(Tail(raw), extract_line(lines, Head(raw)))

extract_lines_from_page(page_data) == extract_lines_from(page_data.lines, <<>>)

(***************************************************************************)
(* Stable sorts, as sorted(key=...) and list.sort(key=...) are.            *)
(***************************************************************************)
InsertByY(s, e) ==
    LET k == Cardinality({i \in 1..Len(s) : s[i].y_position <= e.y_position})
    IN  SubSeq(s, 1, k) \o <<e>> \o SubSeq(s, k + 1, Len(s))

RECURSIVE SortByYFrom(_, _)
SortByYFrom(rest, done) ==
    IF rest = <<>> THEN done ELSE SortByYFrom(Tail(rest), InsertByY(done, Head(rest)))

\* mutant: the elements are grouped in the order of the source
NotSortedByY(elements) == elements

SortedByY(elements) == SortByYFrom(elements, <<>>)

InsertByX(s, e) ==
    LET k == Cardinality({i \in 1..Len(s) : s[i].x_position <= e.x_position})
    IN  SubSeq(s, 1, k) \o <<e>> \o SubSeq(s, k + 1, Len(s))

\* mutant: the group is left in the order of the grouper
Unsorted(group) == group

RECURSIVE SortByXFrom(_, _)
SortByXFrom(rest, done) ==
    IF rest = <<>> THEN done ELSE SortByXFrom(Tail(rest), InsertByX(done, Head(rest)))

SortedByX(group) == SortByXFrom(group, <<>>)

Abs(n) == IF n < 0 THEN -n ELSE n

(***************************************************************************)
(* Line grouper (offset-tracking variant).                                 *)
(***************************************************************************)
y_tolerance == 15

\* mutant: the element is compared with the last element of the group
same_line_as_previous(element, current_group) ==
    Abs(element.y_position - current_group[Len(current_group)].y_position) < y_tolerance

\* the test of the loop: the element is on the line of the current group
same_line(element, current_group) ==
    Abs(element.y_position - current_group[1].y_position) < y_tolerance

\* the loop over sorted_elements[1:]; groups are the closed groups
RECURSIVE group_from(_, _, _)
group_from(rest, groups, current_group) ==
    IF rest = <<>> THEN Append(groups, current_group)
    ELSE IF same_line(Head(rest), current_group)
         THEN group_from(Tail(rest), groups, Append(current_group, Head(rest)))
         ELSE group_from(Tail(rest), Append(groups, current_group), <<Head(rest)>>)

group_lines_by_vertical_position(elements) ==
    IF elements = <<>> THEN <<>>
    ELSE LET sorted_elements == SortedByY(elements)
         IN  group_from(Tail(sorted_elements), <<>>, <<Head(sorted_elements)>>)

(***************************************************************************)
(* Line assembler with offset ledger                                       *)
(* (reflow_page_with_line_numbers_and_offsets).                            *)
(***************************************************************************)
line_numbers_of(group) == SelectSeq(group, LAMBDA e : e.is_line_number)

content_elements_of(group) == SelectSeq(group, LAMBDA e : ~e.is_line_number)

\* mutant: the end of a word is its length
WordOffsetInfo_end_is_length(content, current_offset, bbox) ==
    [content |-> content,
     offset |-> [start |-> current_offset, end |-> Len(content)],
     bbox |-> bbox]

\* WordOffsetInfo(content, offset={start, end}, bbox)
WordOffsetInfo(content, current_offset, bbox) ==
    [content |-> content,
     offset |-> [start |-> current_offset, end |-> current_offset + Len(content)],
     bbox |-> bbox]

\* the cursor after a token of the line has been placed
after_token(current_offset, content) == current_offset + Len(content)

\* mutant: the separator is not counted
after_separator_uncounted(current_offset, sep) == current_offset

\* the cursor after the separator has been placed
after_separator(current_offset, sep) == current_offset + Len(sep)

\* mutant: the space between two content elements is not counted
after_space_uncounted(current_offset) == current_offset

\* the cursor after the space between two content elements
after_space(current_offset) == current_offset + 1

\* mutant: the newline that ends a line is not counted
after_newline_uncounted(current_offset) == current_offset

\* the cursor after the newline that ends a line
after_newline(current_offset) == current_offset + 1

\* the ledger of one line: [line_parts, word_offset_infos, current_offset]
\* "if line_numbers:" -- the leftmost line number and the separator
add_line_number(line_numbers, sep, current_offset) ==
    IF line_numbers = <<>>
    THEN [line_parts |-> <<>>, word_offset_infos |-> <<>>,
          current_offset |-> current_offset]
    ELSE LET line_num == line_numbers[1].content
         IN  [line_parts |-> <<line_num, sep>>,
              word_offset_infos |->
                  <<WordOffsetInfo(line_num, current_offset, line_numbers[1].bbox)>>,
              current_offset |->
                  after_separator(after_token(current_offset, line_num), sep)]

\* one iteration of "for i, elem in enumerate(content_elements)"
add_content(st, i, elem) ==
    LET parts0 == IF i > 0 THEN Append(st.line_parts, <<" ">>) ELSE st.line_parts
        off0 == IF i > 0 THEN after_space(st.current_offset) ELSE st.current_offset
    IN  [line_parts |-> Append(parts0, elem.content),
         word_offset_infos |->
             Append(st.word_offset_infos, WordOffsetInfo(elem.content, off0, elem.bbox)),
         current_offset |-> after_token(off0, elem.content)]

RECURSIVE add_contents(_, _, _)
add_contents(st, i, content_elements) ==
    IF i >= Len(content_elements) THEN st
    ELSE add_contents(add_content(st, i, content_elements[i + 1]), i + 1,
                      content_elements)

\* mutant: the line ends one character early
LineOffsetInfo_ends_early(line_text, line_start_offset, current_offset, bbox, words) ==
    [content |-> line_text,
     offset |-> [start |-> line_start_offset, end |-> current_offset - 1],
     bbox |-> bbox, words |-> words]

\* LineOffsetInfo(content, offset={start, end}, bbox, words)
LineOffsetInfo(line_text, line_start_offset, current_offset, bbox, words) ==
    [content |-> line_text,
     offset |-> [start |-> line_start_offset, end |-> current_offset],
     bbox |-> bbox, words |-> words]

\* the body of "for group in line_groups" for a group that has content:
\* [line_text, line_offset_info, current_offset]
build_line(group, sep, current_offset) ==
    LET sorted == SortedByX(group)
        content_elements == content_elements_of(sorted)
        st == add_contents(add_line_number(line_numbers_of(sorted), sep, current_offset),
                           0, content_elements)
        line_text == Join(<<>>, st.line_parts)
    IN  [line_text |-> line_text,
         line_offset_info |->
             LineOffsetInfo(line_text, current_offset, st.current_offset,
                            content_elements[1].bbox, st.word_offset_infos),
         current_offset |-> after_newline(st.current_offset)]

\* mutant: a row without content still counts the newline of a line
row_step_counts_dropped_row(st, g, sep) ==
    IF content_elements_of(g) = <<>>
    THEN [st EXCEPT !.current_offset = after_newline(@)]
    ELSE LET r == build_line(g, sep, st.current_offset)
         IN  [output_lines |-> Append(st.output_lines, r.line_text),
              line_offset_infos |-> Append(st.line_offset_infos, r.line_offset_info),
              current_offset |-> r.current_offset]

\* the body of "for group in line_groups" on the locals
\* st = [output_lines, line_offset_infos, current_offset]
row_step(st, g, sep) ==
    IF content_elements_of(g) = <<>> THEN st
    ELSE LET r == build_line(g, sep, st.current_offset)
         IN  [output_lines |-> Append(st.output_lines, r.line_text),
              line_offset_infos |-> Append(st.line_offset_infos, r.line_offset_info),
              current_offset |-> r.current_offset]

\* the loop "for group in line_groups"
RECURSIVE row_loop(_, _, _)
row_loop(st, groups, sep) ==
    IF groups = <<>> THEN st
    ELSE row_loop(row_step(st, Head(groups), sep), Tail(groups), sep)

\* PageOffsetInfo(page_number, offset={start, end}, lines)
PageOffsetInfo(page_number, start, end, lines) ==
    [page_number |-> page_number, offset |-> [start |-> start, end |-> end],
     lines |-> lines]

\* the page marker of the offset-tracking variant
page_marker(page_number) ==
    <<NL, "<", "!", "-", "-", " ", "P", "a", "g", "e", " ">> \o IntToStr(page_number)
        \o <<" ", "-", "-", ">", NL>>

\* the returned text: joined parts, or one part when a target page is set
final_content(output_parts, target_page) ==
    IF target_page = <<>> THEN Join(<<NL>>, output_parts)
    ELSE IF Len(output_parts) > 1 THEN output_parts[2]
    ELSE IF output_parts # <<>> THEN output_parts[1]
    ELSE <<>>

(***************************************************************************)
(* The plain variant (reflow_markdown_with_line_numbers.py).               *)
(***************************************************************************)
plain_LineElement(content, parsed) ==
    [content |-> content, y_position |-> parsed.top_y, x_position |-> parsed.left_x,
     page_number |-> parsed.page_number, is_line_number |-> is_line_number(content)]

plain_extract_line(elements, line) ==
    LET content == Strip(line.content)
        parsed == parse_source_coordinates(line.source)
    IN  IF line.source.form = "empty" \/ content = <<>> THEN elements
        ELSE IF ~parsed.ok THEN elements
        ELSE IF is_noise_element(content) THEN elements
        ELSE IF is_line_number_raises(content) THEN elements
        ELSE Append(elements, plain_LineElement(content, parsed))

RECURSIVE plain_extract_lines_from(_, _)
plain_extract_lines_from(raw, elements) ==
    IF raw = <<>> THEN elements
    ELSE plain_extract_lines_from(Tail(raw), plain_extract_line(elements, Head(raw)))

plain_extract_lines_from_page(page_data) ==
    plain_extract_lines_from(page_data.lines, <<>>)

\* the test of the loop: the element is on the line that current_y anchors
plain_same_line(element, current_y) ==
    Abs(element.y_position - current_y) <= y_tolerance

RECURSIVE plain_group_from(_, _, _, _)
plain_group_from(rest, groups, current_group, current_y) ==
    IF rest = <<>> THEN Append(groups, current_group)
    ELSE IF plain_same_line(Head(rest), current_y)
         THEN plain_group_from(Tail(rest), groups, Append(current_group, Head(rest)),
                               current_y)
         ELSE plain_group_from(Tail(rest), Append(groups, current_group),
                               <<Head(rest)>>, Head(rest).y_position)

plain_group_lines_by_vertical_position(elements) ==
    IF elements = <<>> THEN <<>>
    ELSE LET sorted_elements == SortedByY(elements)
         IN  plain_group_from(Tail(sorted_elements), <<>>, <<Head(sorted_elements)>>,
                              Head(sorted_elements).y_position)

RECURSIVE contents_of(_)
contents_of(elements) ==
    IF elements = <<>> THEN <<>>
    ELSE <<Head(elements).content>> \o contents_of(Tail(elements))

\* the output line of one group that has content
plain_line(group, sep) ==
    LET sorted == SortedByX(group)
        line_numbers == line_numbers_of(sorted)
        combined_content == Join(<<" ">>, contents_of(content_elements_of(sorted)))
    IN  IF line_numbers # <<>>
        THEN line_numbers[1].content \o sep \o combined_content
        ELSE combined_content

RECURSIVE plain_output_lines(_, _)
plain_output_lines(line_groups, sep) ==
    IF line_groups = <<>> THEN <<>>
    ELSE IF content_elements_of(Head(line_groups)) = <<>>
         THEN plain_output_lines(Tail(line_groups), sep)
         ELSE <<plain_line(Head(line_groups), sep)>>
                  \o plain_output_lines(Tail(line_groups), sep)

reflow_page_with_line_numbers(page_data, sep) ==
    LET elements == plain_extract_lines_from_page(page_data)
    IN  IF elements = <<>> THEN <<>>
        ELSE Join(<<NL>>,
                  plain_output_lines(plain_group_lines_by_vertical_position(elements), sep))

plain_page_marker(page_number) ==
    <<"<", "!", "-", "-", " ", "P", "a", "g", "e", " ">> \o IntToStr(page_number)
        \o <<" ", "-", "-", ">", NL>>

\* the parts one page adds to output_parts
plain_page_parts(page, target_page, sep) ==
    LET page_output == reflow_page_with_line_numbers(page, sep)
    IN  IF target_page # <<>> /\ page.pageNumber # target_page[1] THEN <<>>
        ELSE IF page_output = <<>> THEN <<>>
        ELSE (IF target_page = <<>> THEN <<plain_page_marker(page.pageNumber)>> ELSE <<>>)
                 \o <<page_output, <<>> >>

RECURSIVE plain_output_parts(_, _, _)
plain_output_parts(pages, target_page, sep) ==
    IF pages = <<>> THEN <<>>
    ELSE plain_page_parts(Head(pages), target_page, sep)
             \o plain_output_parts(Tail(pages), target_page, sep)

\* [ok, text]: ok is FALSE when ValueError is raised
reflow_document(json, target_page, sep) ==
    IF json.contents = <<>> THEN [ok |-> FALSE, text |-> <<>>]
    ELSE IF json.contents[1].pages = <<>> THEN [ok |-> FALSE, text |-> <<>>]
    ELSE [ok |-> TRUE,
          text |-> Join(<<NL>>, plain_output_parts(json.contents[1].pages, target_page, sep))]

(***************************************************************************)
(* Inputs: documents of the analysis result format.                        *)
(***************************************************************************)
\* D(page,x1,y1,...,x4,y4): upper-left, upper-right, lower-right, lower-left
Quad(page, x, y, w, h) ==
    [form |-> "coords", page |-> page,
     coords |-> <<x, y, x + w, y, x + w, y + h, x, y + h>>]

\* D(page,left,top,width,height)
Box(page, x, y, w, h) ==
    [form |-> "coords", page |-> page, coords |-> <<x, y, w, h>>]

\* The coordinates of the lines below are hundredths whose differences the
\* program's floating-point subtraction computes exactly (0.15 - 0.0 is 0.15).

\* D(1,bad)
BadSource == [form |-> "nonnumeric", page |-> 1, coords |-> <<>>]

L_1 == [content |-> <<"1">>, source |-> Quad(1, 10, 50, 20, 40)]

L_INDEX == [content |-> <<"I", "N", "D", "E", "X">>, source |-> Quad(1, 50, 50, 160, 40)]

L_c == [content |-> <<"c", " ">>, source |-> Quad(1, 220, 55, 10, 40)]

L_2 == [content |-> <<"2">>, source |-> Quad(1, 90, 45, 20, 40)]

L_ab == [content |-> <<"a", "b">>, source |-> Box(1, 30, 15, 40, 30)]

L_d == [content |-> <<"d">>, source |-> Quad(1, 5, 0, 10, 40)]

L_7 == [content |-> <<" ", "7">>, source |-> Quad(1, 10, 32, 20, 40)]

L_noise == [content |-> <<"BULLET">>, source |-> Quad(1, 40, 50, 5, 5)]

L_bad == [content |-> <<"x">>, source |-> BadSource]

\* a line whose source does not match the pattern D(page,...)
L_nomatch == [content |-> <<"e">>, source |-> [form |-> "nomatch", page |-> 0,
                                                coords |-> <<>>]]

\* a line whose source has six coordinates
L_count == [content |-> <<"g">>,
            source |-> [form |-> "coords", page |-> 1,
                        coords |-> <<10, 20, 30, 40, 50, 60>>]]

\* a line without source
L_nosource == [content |-> <<"P">>, source |-> [form |-> "empty", page |-> 0,
                                                 coords |-> <<>>]]

\* a unit with the upper-left corner of L_INDEX
L_tie == [content |-> <<"a">>, source |-> Quad(1, 50, 50, 10, 40)]

\* a footnote mark: the superscript two
L_sup == [content |-> <<"SUPERSCRIPT_TWO">>, source |-> Quad(1, 300, 50, 5, 5)]

Lines == {L_1, L_INDEX, L_c, L_2, L_ab, L_d, L_7, L_noise, L_bad}

\* the sequences over S without repetition, of length at most n
RECURSIVE SeqsUpTo(_, _)
SeqsUpTo(S, n) ==
    IF n = 0 THEN {<<>>}
    ELSE LET prev == SeqsUpTo(S, n - 1)
         IN  prev \cup {Append(q, e) : q \in prev, e \in S}

NoRepeat(q) == \A i, j \in 1..Len(q) : i # j => q[i] # q[j]

SinglePages == {q \in SeqsUpTo(Lines, MaxLines) : NoRepeat(q)}

MultiPages == {<<L_1, L_INDEX>>, <<L_c>>, <<L_7>>, <<>>, <<L_1, L_INDEX, L_d>>}

\* pages with a line the extraction rejects
ExtraPages == {<<L_nomatch, L_1, L_INDEX>>, <<L_1, L_count, L_INDEX>>,
               <<L_1, L_INDEX, L_bad, L_noise>>, <<L_nosource, L_c>>,
               <<L_sup, L_INDEX>>, <<L_count>>, <<L_INDEX, L_tie>>,
               <<L_1, L_tie, L_INDEX>>}

Page(n, lines) == [pageNumber |-> n, lines |-> lines]

Document(kind, pages) == [contents |-> <<[kind |-> kind, pages |-> pages]>>]

SinglePageDocs ==
    {Document("document", <<Page(n, q)>>) : n \in {1, 10}, q \in SinglePages}
        \cup {Document("document", <<Page(1, q)>>) : q \in ExtraPages}

RECURSIVE PageSeqs(_)
PageSeqs(n) ==
    IF n = 0 THEN {<<>>}
    ELSE {Append(q, Page(k, l)) : q \in PageSeqs(n - 1), k \in {1, 2}, l \in MultiPages}

MultiPageDocs ==
    {Document("document", q) : q \in UNION {PageSeqs(n) : n \in 2..MaxPages}}

OtherDocs ==
    {[contents |-> <<>>], Document("document", <<>>), Document("table", <<>>)}
        \cup {Document("table", <<Page(1, l)>>) : l \in MultiPages}

Documents == SinglePageDocs \cup MultiPageDocs \cup OtherDocs

\* target_page: <<>> is None, <<n>> is the page number n
TargetPages == {<<>>, <<1>>, <<2>>}

Separators == {<<" ", "|", " ">>, <<>>}

(***************************************************************************)
(* State.                                                                  *)
(***************************************************************************)
VARIABLES
    json_data,          \* the arguments of the call
    target_page,
    separator,
    pc,                 \* "start", "pages", "rows", "done", "error"
    page_index,         \* position of "for page in pages" (1-based)
    output_parts,       \* reflow_document_with_offsets: output_parts
    current_offset,     \* reflow_document_with_offsets: current_offset
    offset_mapping,     \* offset_mapping.pages
    reflowed_content,   \* the returned text
    part_offsets,       \* history: current_offset when each output part was appended
    page_offset,        \* reflow_page_...: current_offset
    page_start_offset,
    line_groups,
    group_index,        \* position of "for group in line_groups" (1-based)
    output_lines,
    line_offset_infos,
    plain_pc,           \* the plain program: "start", "done", "error"
    plain_content,      \* the text reflow_document returns
    unit_pc,            \* a call of the parser or of the classifier on one unit
    unit_source,        \* the descriptor handed to parse_source_coordinates
    unit_text,          \* the text handed to is_line_number and is_noise_element
    unit_parsed,        \* what parse_source_coordinates returned
    unit_kind,          \* what the classifier returned
    demo_pc,            \* demo_offset_visualization.py: position in main()
    demo_content,       \* test_offset_accuracy: content
    demo_mapping,       \* test_offset_accuracy: mapping
    demo_page,          \* position of "for page in mapping.pages" (1-based)
    demo_line,          \* position of "for line in page.lines[:3]" (1-based)
    test_count,
    pass_count,
    demo_result,        \* the value test_offset_accuracy returned
    demo_word,          \* position of "for word in first_line['words']" (1-based)
    word_matches        \* the "Match" marks demonstrate_word_level_offsets prints

vars == <<json_data, target_page, separator, pc, page_index, output_parts,
          current_offset, offset_mapping, reflowed_content, part_offsets,
          page_offset, page_start_offset, line_groups, group_index, output_lines,
          line_offset_infos, plain_pc, plain_content,
          unit_pc, unit_source, unit_text, unit_parsed, unit_kind,
          demo_pc, demo_content, demo_mapping, demo_page, demo_line,
          test_count, pass_count, demo_result, demo_word, word_matches>>

inputs == <<json_data, target_page, separator>>

page_locals == <<page_offset, page_start_offset, line_groups, group_index,
                 output_lines, line_offset_infos>>

doc_locals == <<output_parts, current_offset, offset_mapping, part_offsets>>

plain_vars == <<plain_pc, plain_content>>

unit_vars == <<unit_pc, unit_source, unit_text, unit_parsed, unit_kind>>

demo_vars == <<demo_pc, demo_content, demo_mapping, demo_page, demo_line,
               test_count, pass_count, demo_result, demo_word, word_matches>>

\* the variables of the programs the reflow of a document does not run
aside_vars == <<unit_vars, demo_vars>>

reflow_vars == <<inputs, pc, page_index, doc_locals, reflowed_content, page_locals,
                 plain_vars>>

\* no unit call is under way
UnitsIdle ==
    /\ unit_pc = "idle"
    /\ unit_source = [form |-> "empty", page |-> 0, coords |-> <<>>]
    /\ unit_text = <<>>
    /\ unit_parsed = ParseError
    /\ unit_kind = [raised |-> FALSE, is_line_number |-> FALSE,
                    is_noise_element |-> FALSE]

\* the demo is not running
DemoIdle ==
    /\ demo_pc = "idle"
    /\ demo_content = <<>>
    /\ demo_mapping = <<>>
    /\ demo_page = 1
    /\ demo_line = 1
    /\ test_count = 0
    /\ pass_count = 0
    /\ demo_result = FALSE
    /\ demo_word = 1
    /\ word_matches = <<>>

Init ==
    /\ json_data \in Documents
    /\ target_page \in TargetPages
    /\ separator \in Separators
    /\ pc = "start"
    /\ page_index = 1
    /\ output_parts = <<>>
    /\ current_offset = 0
    /\ offset_mapping = <<>>
    /\ reflowed_content = <<>>
    /\ part_offsets = <<>>
    /\ page_offset = 0
    /\ page_start_offset = 0
    /\ line_groups = <<>>
    /\ group_index = 1
    /\ output_lines = <<>>
    /\ line_offset_infos = <<>>
    /\ plain_pc = "start"
    /\ plain_content = <<>>
    /\ UnitsIdle
    /\ DemoIdle

\* no document is being reflowed
ReflowIdle ==
    /\ json_data = [contents |-> <<>>]
    /\ target_page = <<>>
    /\ separator = <<>>
    /\ pc = "idle"
    /\ page_index = 1
    /\ output_parts = <<>>
    /\ current_offset = 0
    /\ offset_mapping = <<>>
    /\ reflowed_content = <<>>
    /\ part_offsets = <<>>
    /\ page_offset = 0
    /\ page_start_offset = 0
    /\ line_groups = <<>>
    /\ group_index = 1
    /\ output_lines = <<>>
    /\ line_offset_infos = <<>>
    /\ plain_pc = "idle"
    /\ plain_content = <<>>

pages == json_data.contents[1].pages

page == pages[page_index]

\* mutant: the target-page filter rejects no page
page_never_filtered(p) == FALSE

\* "if target_page is not None and page_number != target_page: continue"
filtered_out(p) == target_page # <<>> /\ p.pageNumber # target_page[1]

(***************************************************************************)
(* reflow_document_with_offsets, step by step.                             *)
(***************************************************************************)
\* the cursor after the page marker has been appended
after_marker(offset, marker) == offset + Len(marker)

\* the cursor after a page's text has been appended
after_page(offset, page_output, target) ==
    IF target = <<>> THEN offset + Len(page_output) + 1
    ELSE offset + Len(page_output)

\* mutant: a content whose kind is not "document" is rejected as well
validation_fails_on_kind(json) ==
    \/ json.contents = <<>>
    \/ json.contents[1].pages = <<>>
    \/ json.contents[1].kind # "document"

\* "No contents found in JSON" and "No pages found in JSON content"
validation_fails(json) ==
    \/ json.contents = <<>>
    \/ json.contents[1].pages = <<>>

\* reflow_page_with_line_numbers_and_offsets as a function of its arguments:
\* [text, page_offset_info]
reflow_page_with_line_numbers_and_offsets(page_data, sep, start_offset) ==
    LET elements == extract_lines_from_page(page_data)
        st == row_loop([output_lines |-> <<>>, line_offset_infos |-> <<>>,
                        current_offset |-> start_offset],
                       group_lines_by_vertical_position(elements), sep)
    IN  IF elements = <<>>
        THEN [text |-> <<>>,
              page_offset_info |->
                  PageOffsetInfo(page_data.pageNumber, start_offset, start_offset, <<>>)]
        ELSE [text |-> Join(<<NL>>, st.output_lines),
              page_offset_info |->
                  PageOffsetInfo(page_data.pageNumber, start_offset, st.current_offset,
                                 st.line_offset_infos)]

\* the body of "for page in pages" on the locals of the document function
\* st = [output_parts, current_offset, pages]
document_step(st, p, target, sep) ==
    IF target # <<>> /\ p.pageNumber # target[1] THEN st
    ELSE LET marker == page_marker(p.pageNumber)
             parts == IF target = <<>> THEN Append(st.output_parts, marker)
                      ELSE st.output_parts
             offset == IF target = <<>> THEN after_marker(st.current_offset, marker)
                       ELSE st.current_offset
             r == reflow_page_with_line_numbers_and_offsets(p, sep, offset)
         IN  IF r.text # <<>>
             THEN [output_parts |-> Append(parts, r.text),
                   current_offset |-> after_page(offset, r.text, target),
                   pages |-> Append(st.pages, r.page_offset_info)]
             ELSE [output_parts |-> parts, current_offset |-> offset,
                   pages |-> st.pages]

RECURSIVE document_loop(_, _, _, _)
document_loop(st, ps, target, sep) ==
    IF ps = <<>> THEN st
    ELSE document_loop(document_step(st, Head(ps), target, sep), Tail(ps), target, sep)

\* reflow_document_with_offsets as a function of its arguments:
\* [ok, text, pages]; ok is FALSE when ValueError is raised
reflow_document_with_offsets(json, target, sep) ==
    IF validation_fails(json) THEN [ok |-> FALSE, text |-> <<>>, pages |-> <<>>]
    ELSE LET st == document_loop([output_parts |-> <<>>, current_offset |-> 0,
                                  pages |-> <<>>],
                                 json.contents[1].pages, target, sep)
         IN  [ok |-> TRUE, text |-> final_content(st.output_parts, target),
              pages |-> st.pages]

\* the checks on contents and pages; ValueError ends the call
Validate ==
    /\ pc = "start"
    /\ pc' = IF validation_fails(json_data) THEN "error" ELSE "pages"
    /\ UNCHANGED <<inputs, page_index, doc_locals, reflowed_content, page_locals,
                   plain_vars, aside_vars>>

\* a page the target-page filter rejects
SkipPage ==
    /\ pc = "pages"
    /\ page_index <= Len(pages)
    /\ filtered_out(page)
    /\ page_index' = page_index + 1
    /\ UNCHANGED <<inputs, pc, doc_locals, reflowed_content, page_locals, plain_vars, aside_vars>>

\* the marker of the page, when no target page is set
marker_parts(p) == IF target_page = <<>> THEN <<page_marker(p.pageNumber)>> ELSE <<>>

marker_offsets == IF target_page = <<>> THEN <<current_offset>> ELSE <<>>

offset_after_marker(p) ==
    IF target_page = <<>> THEN after_marker(current_offset, page_marker(p.pageNumber))
    ELSE current_offset

\* a processed page without elements: the page function returns "" at once
EmptyPage ==
    /\ pc = "pages"
    /\ page_index <= Len(pages)
    /\ ~filtered_out(page)
    /\ extract_lines_from_page(page) = <<>>
    /\ output_parts' = output_parts \o marker_parts(page)
    /\ part_offsets' = part_offsets \o marker_offsets
    /\ current_offset' = offset_after_marker(page)
    /\ page_index' = page_index + 1
    /\ UNCHANGED <<inputs, pc, offset_mapping, reflowed_content, page_locals, plain_vars, aside_vars>>

\* a processed page with elements: marker, then the page function starts
BeginPage ==
    /\ pc = "pages"
    /\ page_index <= Len(pages)
    /\ ~filtered_out(page)
    /\ extract_lines_from_page(page) # <<>>
    /\ output_parts' = output_parts \o marker_parts(page)
    /\ part_offsets' = part_offsets \o marker_offsets
    /\ current_offset' = offset_after_marker(page)
    /\ page_offset' = offset_after_marker(page)
    /\ page_start_offset' = offset_after_marker(page)
    /\ line_groups' = group_lines_by_vertical_position(extract_lines_from_page(page))
    /\ group_index' = 1
    /\ output_lines' = <<>>
    /\ line_offset_infos' = <<>>
    /\ pc' = "rows"
    /\ UNCHANGED <<inputs, page_index, offset_mapping, reflowed_content, plain_vars, aside_vars>>

group == line_groups[group_index]

\* the locals of the page function that the loop over the groups updates
page_state ==
    [output_lines |-> output_lines, line_offset_infos |-> line_offset_infos,
     current_offset |-> page_offset]

\* a group without content elements: "continue"
SkipRow ==
    /\ pc = "rows"
    /\ group_index <= Len(line_groups)
    /\ content_elements_of(group) = <<>>
    /\ LET st == row_step(page_state, group, separator)
       IN  /\ output_lines' = st.output_lines
           /\ line_offset_infos' = st.line_offset_infos
           /\ page_offset' = st.current_offset
    /\ group_index' = group_index + 1
    /\ UNCHANGED <<inputs, pc, page_index, doc_locals, reflowed_content,
                   page_start_offset, line_groups, plain_vars, aside_vars>>

\* a group with content elements: one output line and its spans
EmitRow ==
    /\ pc = "rows"
    /\ group_index <= Len(line_groups)
    /\ content_elements_of(group) # <<>>
    /\ LET st == row_step(page_state, group, separator)
       IN  /\ output_lines' = st.output_lines
           /\ line_offset_infos' = st.line_offset_infos
           /\ page_offset' = st.current_offset
    /\ group_index' = group_index + 1
    /\ UNCHANGED <<inputs, pc, page_index, doc_locals, reflowed_content,
                   page_start_offset, line_groups, plain_vars, aside_vars>>

\* the page function returns; the document loop appends its text and spans
EndPage ==
    /\ pc = "rows"
    /\ group_index > Len(line_groups)
    /\ LET page_output == Join(<<NL>>, output_lines)
           page_offset_info == PageOffsetInfo(page.pageNumber, page_start_offset,
                                              page_offset, line_offset_infos)
       IN  IF page_output # <<>>
           THEN /\ output_parts' = Append(output_parts, page_output)
                /\ part_offsets' = Append(part_offsets, current_offset)
                /\ current_offset' = after_page(current_offset, page_output, target_page)
                /\ offset_mapping' = Append(offset_mapping, page_offset_info)
           ELSE UNCHANGED doc_locals
    /\ page_index' = page_index + 1
    /\ pc' = "pages"
    /\ UNCHANGED <<inputs, reflowed_content, page_locals, plain_vars, aside_vars>>

\* after the last page: the returned text
Finish ==
    /\ pc = "pages"
    /\ page_index > Len(pages)
    /\ reflowed_content' = final_content(output_parts, target_page)
    /\ pc' = "done"
    /\ UNCHANGED <<inputs, page_index, doc_locals, page_locals, plain_vars, aside_vars>>

\* the plain program on the same arguments
PlainReflow ==
    /\ pc \in {"done", "error"}
    /\ plain_pc = "start"
    /\ LET r == reflow_document(json_data, target_page, separator)
       IN  /\ plain_pc' = IF r.ok THEN "done" ELSE "error"
           /\ plain_content' = r.text
    /\ UNCHANGED <<inputs, pc, page_index, doc_locals, reflowed_content, page_locals,
                   aside_vars>>

Next ==
    \/ Validate
    \/ SkipPage
    \/ EmptyPage
    \/ BeginPage
    \/ SkipRow
    \/ EmitRow
    \/ EndPage
    \/ Finish
    \/ PlainReflow

Spec == Init /\ [][Next]_vars

\* the stepwise run and the functions of the arguments agree
RunIsFunction ==
    LET r == reflow_document_with_offsets(json_data, target_page, separator)
    IN  /\ pc = "error" => ~r.ok
        /\ pc = "done" =>
               r.ok /\ r.text = reflowed_content /\ r.pages = offset_mapping

TypeOK ==
    /\ pc \in {"start", "pages", "rows", "done", "error"}
    /\ plain_pc \in {"start", "done", "error"}
    /\ current_offset >= 0
    /\ Len(part_offsets) = Len(output_parts)

(***************************************************************************)
(* Properties.                                                             *)
(***************************************************************************)
\* the LineSpans of a mapping, in emission order
RECURSIVE LinesOf(_)
LinesOf(mapping) ==
    IF mapping = <<>> THEN <<>> ELSE Head(mapping).lines \o LinesOf(Tail(mapping))

\* the WordSpans of a sequence of LineSpans, in emission order
RECURSIVE WordsOf(_)
WordsOf(lines) ==
    IF lines = <<>> THEN <<>> ELSE Head(lines).words \o WordsOf(Tail(lines))

\* the span extracts its own content from the text
Extracts(text, span) == Slice(text, span.offset.start, span.offset.end) = span.content

AllExtract(text, spans) == \A i \in 1..Len(spans) : Extracts(text, spans[i])

\* consecutive spans do not overlap and do not go backwards
Monotonic(spans) ==
    \A i \in 1..(Len(spans) - 1) : spans[i].offset.end <= spans[i + 1].offset.start

\* the pages of the document that declare the target page number
Declaring == {i \in 1..Len(pages) : target_page # <<>> /\ pages[i].pageNumber = target_page[1]}

\* C1: every WordSpan and LineSpan of the returned mapping extracts its own
\* content from the returned text, with or without a target page.
C1_RoundTrip ==
    pc = "done" =>
        /\ AllExtract(reflowed_content, LinesOf(offset_mapping))
        /\ AllExtract(reflowed_content, WordsOf(LinesOf(offset_mapping)))

\* C2: with a target page that exactly one page of the document declares,
\* every LineSpan of the returned mapping extracts its own content from the
\* returned text.
C2_TargetLineSpans ==
    (pc = "done" /\ target_page # <<>> /\ Cardinality(Declaring) = 1) =>
        AllExtract(reflowed_content, LinesOf(offset_mapping))

\* C2 witness: a two-page document, one page declaring the target, whose
\* reflow returned two lines with their spans.
C2_Witness ==
    /\ pc = "done" /\ target_page # <<>> /\ Cardinality(Declaring) = 1
    /\ Len(pages) = 2
    /\ Len(LinesOf(offset_mapping)) = 2
    /\ LinesOf(offset_mapping)[2].offset.start > 0

\* the index at which output part i begins in the text the parts are joined to
PartStart(i) == Len(Join(<<NL>>, SubSeq(output_parts, 1, i - 1))) + (IF i > 1 THEN 1 ELSE 0)

\* C3: the cursor at which each output part was appended is the index at
\* which the part begins in the returned text, and each PageSpan starts at
\* the first character of its page.
C3_CursorMatchesText ==
    (pc = "done" /\ (target_page = <<>> \/ Len(output_parts) <= 1)) =>
        /\ \A i \in 1..Len(output_parts) : part_offsets[i] = PartStart(i)
        /\ \A i \in 1..Len(offset_mapping) :
               LET p == offset_mapping[i]
               IN  Slice(reflowed_content, p.offset.start,
                         p.offset.start + Len(p.lines[1].content)) = p.lines[1].content

\* C4: consecutive WordSpans, LineSpans and PageSpans of the returned
\* mapping satisfy spans[i].end <= spans[i+1].start.
C4_MonotonicSpans ==
    pc = "done" =>
        /\ Monotonic(WordsOf(LinesOf(offset_mapping)))
        /\ Monotonic(LinesOf(offset_mapping))
        /\ Monotonic(offset_mapping)

\* the span is as long as its content
LengthOK(span) == span.offset.end - span.offset.start = Len(span.content)

\* C5: every LineSpan and WordSpan the page function has recorded satisfies
\* end - start = length(content).
C5_SpanLength ==
    /\ \A i \in 1..Len(line_offset_infos) : LengthOK(line_offset_infos[i])
    /\ \A i \in 1..Len(WordsOf(line_offset_infos)) :
           LengthOK(WordsOf(line_offset_infos)[i])

\* C5 witness: with the empty separator, a recorded line made of a line
\* number and two content units.
C5_Witness ==
    /\ separator = <<>>
    /\ \E i \in 1..Len(line_offset_infos) :
           /\ Len(line_offset_infos[i].words) = 3
           /\ is_line_number(line_offset_infos[i].words[1].content)

\* the elements of the page being processed, without those of row k
WithoutRow(k) ==
    SelectSeq(extract_lines_from_page(page), LAMBDA e : e \notin Range(line_groups[k]))

\* the locals of the page function before its first row
FirstPageState ==
    [output_lines |-> <<>>, line_offset_infos |-> <<>>, current_offset |-> page_start_offset]

\* the step of the page function visits a row without content
AtDroppedRow ==
    pc = "rows" /\ group_index <= Len(line_groups) /\ content_elements_of(group) = <<>>

\* the page function has visited every row of the page
RowsDone == pc = "rows" /\ group_index > Len(line_groups)

\* C6: a row of line numbers only adds no output line and no span and leaves
\* the cursor as it was, and the lines and spans of the page are those of
\* the page without that row.
C6_RowDrop ==
    /\ [][AtDroppedRow => /\ output_lines' = output_lines
                          /\ line_offset_infos' = line_offset_infos
                          /\ page_offset' = page_offset]_vars
    /\ [](RowsDone =>
            \A k \in 1..Len(line_groups) :
                content_elements_of(line_groups[k]) = <<>> =>
                    row_loop(FirstPageState,
                             group_lines_by_vertical_position(WithoutRow(k)),
                             separator) = page_state)

\* C6 witness: the rows of a page are done, a row of line numbers only was
\* visited before a row with content, and lines were recorded.
C6_Witness ==
    /\ RowsDone
    /\ \E k \in 1..(Len(line_groups) - 1) :
           /\ content_elements_of(line_groups[k]) = <<>>
           /\ content_elements_of(line_groups[k + 1]) # <<>>
    /\ Len(line_offset_infos) >= 2

\* the positions of the line numbers and of the content units of a row
NumberIdx(g) == {i \in 1..Len(g) : g[i].is_line_number}

ContentIdx(g) == {i \in 1..Len(g) : ~g[i].is_line_number}

\* text is: a leftmost line number and the separator (when the row has a line
\* number), then the content units in ascending leftX joined by one space
IsClaimedLine(g, sep, text) ==
    LET n == Cardinality(ContentIdx(g))
    IN  \E f \in [1..n -> ContentIdx(g)] :
            /\ \A a, b \in 1..n : a # b => f[a] # f[b]
            /\ \A a, b \in 1..n : a < b => g[f[a]].x_position <= g[f[b]].x_position
            /\ LET body == Join(<<" ">>, [a \in 1..n |-> g[f[a]].content])
               IN  IF NumberIdx(g) = {} THEN text = body
                   ELSE \E m \in NumberIdx(g) :
                            /\ \A o \in NumberIdx(g) : g[m].x_position <= g[o].x_position
                            /\ text = g[m].content \o sep \o body

HasContent(g) == ContentIdx(g) # {}

\* lines are the claimed lines of the rows of groups that have content
AreClaimedLines(groups, sep, lines) ==
    LET rows == SelectSeq(groups, HasContent)
    IN  /\ Len(lines) = Len(rows)
        /\ \A j \in 1..Len(rows) : IsClaimedLine(rows[j], sep, lines[j])

\* C7: each row with content gives one line: the leftmost line number and the
\* separator when the row has a line number, then the content units in
\* ascending leftX joined by single spaces; in the offset-tracking variant
\* (the rows visited so far) and in the plain variant (the whole page).
C7_LineFormat ==
    pc = "rows" =>
        /\ AreClaimedLines(SubSeq(line_groups, 1, group_index - 1), separator, output_lines)
        /\ \A j \in 1..Len(output_lines) : line_offset_infos[j].content = output_lines[j]
        /\ AreClaimedLines(
               plain_group_lines_by_vertical_position(plain_extract_lines_from_page(page)),
               separator,
               plain_output_lines(
                   plain_group_lines_by_vertical_position(plain_extract_lines_from_page(page)),
                   separator))

\* C7 witness: a visited row with two line numbers and content in which a
\* line number lies to the right of a content unit, and its line.
C7_Witness ==
    /\ pc = "rows" /\ group_index > 1
    /\ LET g == line_groups[group_index - 1]
       IN  /\ Cardinality(NumberIdx(g)) = 2
           /\ \E m \in NumberIdx(g), c \in ContentIdx(g) :
                  g[m].x_position > g[c].x_position
    /\ output_lines # <<>>

ScenarioDocument == Document("document", <<Page(1, <<L_1, L_INDEX>>)>>)

\* C8: with a target page, the first line of the first emitted page starts at
\* offset 0; when it has a line number n and first content c, their WordSpans
\* are [0, len(n)) and [len(n)+len(sep), len(n)+len(sep)+len(c)).  The page
\* with "1" and "INDEX" on one row and separator " | " gives "1 | INDEX" with
\* WordSpans [0,1] and [4,9].
C8_FirstLineOffsets ==
    (pc = "done" /\ target_page # <<>> /\ offset_mapping # <<>>) =>
        LET line == offset_mapping[1].lines[1]
            w == line.words
        IN  /\ line.offset.start = 0
            /\ is_line_number(w[1].content) =>
                   /\ w[1].offset = [start |-> 0, end |-> Len(w[1].content)]
                   /\ w[2].offset =
                          [start |-> Len(w[1].content) + Len(separator),
                           end |-> Len(w[1].content) + Len(separator) + Len(w[2].content)]
            /\ (json_data = ScenarioDocument /\ separator = <<" ", "|", " ">>) =>
                   /\ reflowed_content = <<"1", " ", "|", " ", "I", "N", "D", "E", "X">>
                   /\ w[1].offset = [start |-> 0, end |-> 1]
                   /\ w[2].offset = [start |-> 4, end |-> 9]

\* C8 witness: the reflow of page 1 of the scenario document has returned.
C8_Witness ==
    /\ pc = "done" /\ target_page = <<1>>
    /\ json_data = ScenarioDocument /\ separator = <<" ", "|", " ">>
    /\ Len(offset_mapping[1].lines[1].words) = 2

\* C9: the offset-tracking reflow and the plain reflow return the same text.
C9_SameText ==
    (pc = "done" /\ plain_pc = "done") => reflowed_content = plain_content

\* the groups follow the anchor rule with the tolerance included
AnchorRule(groups) ==
    /\ \A k \in 1..Len(groups) : \A j \in 2..Len(groups[k]) :
           Abs(groups[k][j].y_position - groups[k][1].y_position) <= y_tolerance
    /\ \A k \in 2..Len(groups) :
           Abs(groups[k][1].y_position - groups[k - 1][1].y_position) > y_tolerance

\* C10: in both groupers a unit joins the current group iff its topY differs
\* from the topY of the group's first unit by at most the tolerance.
C10_AnchorRule ==
    pc = "rows" =>
        /\ AnchorRule(line_groups)
        /\ AnchorRule(plain_group_lines_by_vertical_position(
                          plain_extract_lines_from_page(page)))

(***************************************************************************)
(* Target-page filter.                                                     *)
(***************************************************************************)
\* the document without the pages that do not declare the target page
WithoutOtherPages(json, target) ==
    LET declares(p) == p.pageNumber = target[1]
    IN  Document(json.contents[1].kind, SelectSeq(json.contents[1].pages, declares))

\* the finished call returned what the same call returns on the document json
SameResultAs(json) ==
    LET r == reflow_document_with_offsets(json, target_page, separator)
        q == reflow_document(json, target_page, separator)
    IN  /\ pc = "done" =>
               r.ok /\ r.text = reflowed_content /\ r.pages = offset_mapping
        /\ plain_pc = "done" => q.ok /\ q.text = plain_content

\* a page the filter rejects leaves the parts, the mapping and the cursor alone
SkippedPageFrame ==
    (pc = "pages" /\ page_index <= Len(pages) /\ target_page # <<>>
        /\ page.pageNumber # target_page[1])
    => /\ output_parts' = output_parts
       /\ offset_mapping' = offset_mapping
       /\ current_offset' = current_offset
       /\ page_index' = page_index + 1

SomePageDeclaresTarget ==
    \E i \in 1..Len(pages) : pages[i].pageNumber = target_page[1]

\* C11 as stated: with a target page set, a page that does not declare it
\* contributes no character, no PageSpan and no cursor advance, and the
\* result of either variant equals the result for the document with those
\* pages removed.
C11_FilterAsStated ==
    (pc = "done" /\ target_page # <<>>)
    => SameResultAs(WithoutOtherPages(json_data, target_page))

\* C11 amended: with a target page set, a page that does not declare it
\* contributes no character, no PageSpan and no cursor advance; when some page
\* declares the target, the result of either variant equals the result for the
\* document with the other pages removed; when none does, the result is the
\* empty text with an empty mapping (the document without pages is rejected).
C11_Filter ==
    /\ [][SkippedPageFrame]_vars
    /\ [](pc = "done" /\ target_page # <<>> /\ SomePageDeclaresTarget
            => SameResultAs(WithoutOtherPages(json_data, target_page)))
    /\ [](pc = "done" /\ target_page # <<>> /\ ~SomePageDeclaresTarget
            => /\ reflowed_content = <<>> /\ offset_mapping = <<>>
               /\ plain_pc = "done" => plain_content = <<>>
               /\ validation_fails(WithoutOtherPages(json_data, target_page)))

\* a two-page document whose second page is the target and whose first is not
C11_Witness ==
    /\ pc = "done" /\ plain_pc = "done"
    /\ target_page = <<2>>
    /\ Len(pages) = 2
    /\ pages[1].pageNumber = 1 /\ pages[2].pageNumber = 2
    /\ pages[1].lines # <<>>
    /\ Len(offset_mapping) = 1
    /\ plain_content # <<>>

(***************************************************************************)
(* Page markers.                                                           *)
(***************************************************************************)
\* the comment both variants put on a marker line: <!-- Page N -->
MarkerText(n) ==
    <<"<", "!", "-", "-", " ", "P", "a", "g", "e", " ">> \o IntToStr(n)
        \o <<" ", "-", "-", ">">>

OccursAt(text, i, w) ==
    i + Len(w) - 1 <= Len(text) /\ SubSeq(text, i, i + Len(w) - 1) = w

PageNumbers == {pages[i].pageNumber : i \in 1..Len(pages)}

\* the markers of a text from position i on, in order: [n, first, last]
RECURSIVE MarkersFrom(_, _)
MarkersFrom(text, i) ==
    IF i > Len(text) THEN <<>>
    ELSE LET found == {n \in PageNumbers : OccursAt(text, i, MarkerText(n))}
         IN  IF found = {} THEN MarkersFrom(text, i + 1)
             ELSE LET n == CHOOSE k \in found : TRUE
                  IN  <<[n |-> n, first |-> i, last |-> i + Len(MarkerText(n)) - 1]>>
                          \o MarkersFrom(text, i + 1)

\* a text without its leading and trailing newlines
RECURSIVE StripNL(_)
StripNL(s) == IF s = <<>> THEN s
              ELSE IF Head(s) = NL THEN StripNL(Tail(s))
              ELSE IF s[Len(s)] = NL THEN StripNL(SubSeq(s, 1, Len(s) - 1))
              ELSE s

\* the text that follows marker j, up to the next marker
AfterMarker(text, markers, j) ==
    LET stop == IF j < Len(markers) THEN markers[j + 1].first - 1 ELSE Len(text)
    IN  StripNL(SubSeq(text, markers[j].last + 1, stop))

\* one marker per emitted page, in order, each before the lines of its page;
\* emitted is the sequence of [n, text] of the emitted pages
MarkersAnnounce(text, emitted) ==
    LET markers == MarkersFrom(text, 1)
    IN  /\ Len(markers) = Len(emitted)
        /\ \A j \in 1..Len(markers) :
               j <= Len(emitted) =>
                   /\ markers[j].n = emitted[j].n
                   /\ AfterMarker(text, markers, j) = emitted[j].text

RECURSIVE LineContents(_)
LineContents(lines) ==
    IF lines = <<>> THEN <<>>
    ELSE <<Head(lines).content>> \o LineContents(Tail(lines))

\* the pages the offset-tracking variant emitted: those with a PageSpan
EmittedPages ==
    [i \in 1..Len(offset_mapping) |->
        [n |-> offset_mapping[i].page_number,
         text |-> Join(<<NL>>, LineContents(offset_mapping[i].lines))]]

\* the pages the plain variant emits: those with an output line
RECURSIVE PlainEmitted(_)
PlainEmitted(ps) ==
    IF ps = <<>> THEN <<>>
    ELSE LET page_output == reflow_page_with_line_numbers(Head(ps), separator)
         IN  (IF page_output = <<>> THEN <<>>
              ELSE <<[n |-> Head(ps).pageNumber, text |-> page_output]>>)
                 \o PlainEmitted(Tail(ps))

\* C12: with no target page the output holds exactly one marker
\* <!-- Page N --> per emitted page, N the page's declared pageNumber, before
\* that page's lines and in source page order; with a target page the output
\* holds no marker.
C12_Markers ==
    /\ (pc = "done" /\ target_page = <<>>)
           => MarkersAnnounce(reflowed_content, EmittedPages)
    /\ (plain_pc = "done" /\ target_page = <<>>)
           => MarkersAnnounce(plain_content, PlainEmitted(pages))
    /\ (pc = "done" /\ target_page # <<>>) => MarkersFrom(reflowed_content, 1) = <<>>
    /\ (plain_pc = "done" /\ target_page # <<>>) => MarkersFrom(plain_content, 1) = <<>>

\* the part of C12 that holds of the offset-tracking variant too: one marker
\* per processed page, and none with a target page
MarkersOfProcessedPages ==
    /\ (pc = "done" /\ target_page = <<>>) =>
           LET markers == MarkersFrom(reflowed_content, 1)
           IN  /\ Len(markers) = Len(pages)
               /\ \A j \in 1..Len(pages) :
                      j <= Len(markers) => markers[j].n = pages[j].pageNumber
    /\ (pc = "done" /\ target_page # <<>>) => MarkersFrom(reflowed_content, 1) = <<>>

\* the plain variant alone satisfies C12
PlainMarkers ==
    /\ (plain_pc = "done" /\ target_page = <<>>)
           => MarkersAnnounce(plain_content, PlainEmitted(pages))
    /\ (plain_pc = "done" /\ target_page # <<>>) => MarkersFrom(plain_content, 1) = <<>>

(***************************************************************************)
(* Lines the extraction rejects.                                           *)
(***************************************************************************)
\* a descriptor that is not D(page, four or eight numbers)
Malformed(source) ==
    \/ source.form \in {"empty", "nomatch", "nonnumeric"}
    \/ source.form = "coords" /\ Len(source.coords) \notin {4, 8}

WithoutIndex(q, k) == SubSeq(q, 1, k - 1) \o SubSeq(q, k + 1, Len(q))

\* the document without line k of page i
WithoutLine(json, i, k) ==
    LET ps == json.contents[1].pages
    IN  Document(json.contents[1].kind,
                 [ps EXCEPT ![i] = Page(ps[i].pageNumber, WithoutIndex(ps[i].lines, k))])

\* C13: a line whose descriptor is malformed (no match of the grammar, a
\* non-numeric coordinate, a coordinate count other than 4 or 8) is left out
\* without aborting: the call ends normally and returns what it returns for the
\* same page without that line, in both variants.
C13_MalformedExcluded ==
    /\ pc = "error" => validation_fails(json_data)
    /\ plain_pc = "error" => validation_fails(json_data)
    /\ pc = "done" =>
           \A i \in 1..Len(pages) : \A k \in 1..Len(pages[i].lines) :
               Malformed(pages[i].lines[k].source)
                   => SameResultAs(WithoutLine(json_data, i, k))

\* a page whose second line has six coordinates, between a number and its text
C13_Witness ==
    /\ pc = "done" /\ plain_pc = "done"
    /\ Len(pages) = 1
    /\ pages[1].lines = <<L_1, L_count, L_INDEX>>
    /\ Len(offset_mapping) = 1
    /\ Len(offset_mapping[1].lines[1].words) = 2

(***************************************************************************)
(* Failure of the document functions.                                      *)
(***************************************************************************)
NoContentsOrNoPages ==
    json_data.contents = <<>> \/ json_data.contents[1].pages = <<>>

\* C14: reflow_document and reflow_document_with_offsets fail exactly when the
\* contents are empty or the first content has no pages; a kind other than
\* "document" does not make them fail and gives the result the same content
\* gives with the kind "document".
C14_FailureIff ==
    /\ pc \in {"done", "error"} => (pc = "error" <=> NoContentsOrNoPages)
    /\ plain_pc \in {"done", "error"} => (plain_pc = "error" <=> NoContentsOrNoPages)
    /\ (pc = "done" /\ json_data.contents[1].kind # "document")
           => SameResultAs(Document("document", pages))

\* a content of kind "table" with a page that is reflowed
C14_Witness ==
    /\ pc = "done" /\ plain_pc = "done"
    /\ json_data.contents[1].kind = "table"
    /\ offset_mapping # <<>>
    /\ plain_content # <<>>

(***************************************************************************)
(* The geometry parser and the classifier on one unit.                     *)
(***************************************************************************)
\* length of the text handed to the classifier
MaxText == 3

QuadCoords == {1, 2, 6}

BoxCoords == {1, 2, 3, 4}

Descriptor(c) == [form |-> "coords", page |-> 1, coords |-> c]

\* descriptors of eight, of four and of another number of coordinates, and
\* strings that are no descriptor
UnitSources ==
    {Descriptor(c) : c \in [1..8 -> QuadCoords]}
        \cup {Descriptor(c) : c \in [1..4 -> BoxCoords]}
        \cup {Descriptor([i \in 1..n |-> 1]) : n \in {1, 2, 3, 5, 6, 7, 9}}
        \cup {BadSource, L_nomatch.source, L_nosource.source}

UnitAlphabet == {"0", "1", "7", "9", "a", " ", ".", "BULLET", "SUPERSCRIPT_TWO"}

UnitTexts == UNION {[1..n -> UnitAlphabet] : n \in 0..MaxText}

\* what the two classifier functions answer on a text
classification(text) ==
    [raised |-> is_line_number_raises(text),
     is_line_number |-> is_line_number(text),
     is_noise_element |-> is_noise_element(text)]

InitUnits ==
    /\ ReflowIdle
    /\ DemoIdle
    /\ unit_parsed = ParseError
    /\ unit_kind = [raised |-> FALSE, is_line_number |-> FALSE,
                    is_noise_element |-> FALSE]
    /\ \/ unit_pc = "parse" /\ unit_source \in UnitSources /\ unit_text = <<>>
       \/ unit_pc = "classify" /\ unit_text \in UnitTexts
              /\ unit_source = L_nosource.source

\* parse_source_coordinates(source)
ParseSource ==
    /\ unit_pc = "parse"
    /\ unit_parsed' = parse_source_coordinates(unit_source)
    /\ unit_pc' = "parsed"
    /\ UNCHANGED <<reflow_vars, demo_vars, unit_source, unit_text, unit_kind>>

\* is_noise_element(content) and is_line_number(content) on a unit
Classify ==
    /\ unit_pc = "classify"
    /\ unit_kind' = classification(unit_text)
    /\ unit_pc' = "classified"
    /\ UNCHANGED <<reflow_vars, demo_vars, unit_source, unit_text, unit_parsed>>

\* the same unit classified once more
ClassifyAgain ==
    /\ unit_pc = "classified"
    /\ unit_kind' = classification(unit_text)
    /\ unit_pc' = "classified_again"
    /\ UNCHANGED <<reflow_vars, demo_vars, unit_source, unit_text, unit_parsed>>

NextUnits ==
    \/ ParseSource
    \/ Classify
    \/ ClassifyAgain

SpecUnits == InitUnits /\ [][NextUnits]_vars

Least(S) == CHOOSE m \in S : \A x \in S : m <= x

Greatest(S) == CHOOSE m \in S : \A x \in S : m >= x

\* C15: parse_source_coordinates returns, for eight coordinates
\* x1,y1,...,x4,y4, left = min(x1,x4), top = min(y1,y2), right = max(x2,x3),
\* bottom = max(y3,y4); for four coordinates left, top, width, height,
\* right = left+width and bottom = top+height; it fails for every other count.
C15_ParseFormulas ==
    unit_pc = "parsed" =>
        LET c == unit_source.coords
            r == unit_parsed
        IN  /\ (unit_source.form = "coords" /\ Len(c) = 8) =>
                   /\ r.ok
                   /\ r.left_x = Least({c[1], c[7]})
                   /\ r.top_y = Least({c[2], c[4]})
                   /\ r.right_x = Greatest({c[3], c[5]})
                   /\ r.bottom_y = Greatest({c[6], c[8]})
            /\ (unit_source.form = "coords" /\ Len(c) = 4) =>
                   /\ r.ok
                   /\ r.left_x = c[1] /\ r.top_y = c[2]
                   /\ r.right_x = c[1] + c[3]
                   /\ r.bottom_y = c[2] + c[4]
            /\ (unit_source.form = "coords" /\ Len(c) \notin {4, 8}) => ~r.ok
            /\ unit_source.form # "coords" => ~r.ok

\* a quadrilateral whose corners disagree on every side has been parsed
C15_Witness ==
    /\ unit_pc = "parsed"
    /\ unit_source = Descriptor(<<2, 2, 2, 1, 6, 6, 1, 2>>)
    /\ unit_parsed.ok
    /\ unit_parsed.left_x = 1 /\ unit_parsed.top_y = 1
    /\ unit_parsed.right_x = 6 /\ unit_parsed.bottom_y = 6

Sides(r) == <<r.left_x, r.top_y, r.right_x, r.bottom_y>>

ExampleQuad == Descriptor(<<1, 2, 1, 6, 2, 6, 2, 1>>)

ExampleBox == Descriptor(<<1, 2, 3, 4>>)

\* C16 as stated: the quadrilateral (1,2,1,6,2,6,2,1) normalizes to left=1,
\* top=1, right=6, bottom=2, and the axis-aligned left=1, top=2, width=3,
\* height=4 normalizes to right=4, bottom=6.
C16_ExamplesAsStated ==
    /\ (unit_pc = "parsed" /\ unit_source = ExampleQuad)
           => unit_parsed.ok /\ Sides(unit_parsed) = <<1, 1, 6, 2>>
    /\ (unit_pc = "parsed" /\ unit_source = ExampleBox)
           => unit_parsed.ok /\ Sides(unit_parsed) = <<1, 2, 4, 6>>

\* C16 amended: the quadrilateral (1,2,1,6,2,6,2,1) normalizes to left=1,
\* top=2, right=2, bottom=6, and the axis-aligned left=1, top=2, width=3,
\* height=4 normalizes to right=4, bottom=6.
C16_Examples ==
    /\ (unit_pc = "parsed" /\ unit_source = ExampleQuad)
           => unit_parsed.ok /\ Sides(unit_parsed) = <<1, 2, 2, 6>>
    /\ (unit_pc = "parsed" /\ unit_source = ExampleBox)
           => unit_parsed.ok /\ Sides(unit_parsed) = <<1, 2, 4, 6>>

\* the axis-aligned example has been parsed
C16_BoxWitness ==
    /\ unit_pc = "parsed"
    /\ unit_source = ExampleBox
    /\ unit_parsed.ok

\* the quadrilateral example has been parsed
C16_QuadWitness ==
    /\ unit_pc = "parsed"
    /\ unit_source = ExampleQuad
    /\ unit_parsed.ok

\* the trimmed text is made of decimal digits and its value is in 1..99
IsNumberInRange(t) ==
    /\ t # <<>>
    /\ \A i \in 1..Len(t) : t[i] \in Digits
    /\ StrToInt(t) \in 1..99

\* the trimmed text is a glyph of the list or one non-alphanumeric character
IsGlyphOrSymbol(t) ==
    Len(t) = 1 /\ (t[1] \in NoiseGlyphs \/ ~IsAlnumChar(t[1]))

\* C17: is_line_number(text) is true exactly when the trimmed text is made of
\* decimal digits and its value is between 1 and 99 ("0" and "100" are not,
\* "07" is); is_noise_element(text) is true exactly when the trimmed text is
\* one of the glyphs or a single non-alphanumeric character; both depend on
\* the trimmed text only, and classifying the unit again gives the same kind.
C17_Classifier ==
    /\ [](unit_pc \in {"classified", "classified_again"} =>
            /\ unit_kind.is_line_number <=> IsNumberInRange(Strip(unit_text))
            /\ unit_kind.is_noise_element <=> IsGlyphOrSymbol(Strip(unit_text))
            /\ unit_kind = classification(Strip(unit_text))
            /\ unit_text = <<"0">> => ~unit_kind.is_line_number
            /\ unit_text = <<"1", "0", "0">> => ~unit_kind.is_line_number
            /\ unit_text = <<"0", "7">> => unit_kind.is_line_number)
    /\ [][unit_pc = "classified" => unit_kind' = unit_kind]_vars

\* "07" between blanks has been classified twice as a line number
C17_Witness ==
    /\ unit_pc = "classified_again"
    /\ unit_text = <<" ", "0", "7">>
    /\ unit_kind.is_line_number
    /\ ~unit_kind.is_noise_element

(***************************************************************************)
(* Noise.                                                                  *)
(***************************************************************************)
\* the sources of the noise units of the document
NoiseSources ==
    LET all_lines == UNION {Range(pages[i].lines) : i \in 1..Len(pages)}
    IN  {l.source : l \in {m \in all_lines : is_noise_element(m.content)}}

\* the elements handed to the grouper, as the groups hold them
GroupedElements ==
    UNION {Range(line_groups[g]) : g \in 1..Len(line_groups)}

\* C18: a unit classified as noise never reaches the grouper and never appears
\* in the output: no output line and no WordSpan has a noise unit as its
\* source, and the result equals the result for the same page with the noise
\* unit removed, in both variants.
C18_NoiseDropped ==
    /\ pc = "rows" =>
           \A e \in GroupedElements :
               ~is_noise_element(e.content) /\ e.bbox \notin NoiseSources
    /\ pc = "done" =>
           /\ \A l \in Range(LinesOf(offset_mapping)) :
                  /\ l.bbox \notin NoiseSources
                  /\ \A w \in Range(l.words) :
                         w.bbox \notin NoiseSources /\ ~is_noise_element(w.content)
           /\ \A i \in 1..Len(pages) : \A k \in 1..Len(pages[i].lines) :
                  is_noise_element(pages[i].lines[k].content)
                      => SameResultAs(WithoutLine(json_data, i, k))

\* a page with a bullet on the row of a line number and its text
C18_Witness ==
    /\ pc = "done" /\ plain_pc = "done"
    /\ Len(pages) = 1
    /\ pages[1].lines = <<L_1, L_noise, L_INDEX>>
    /\ Len(offset_mapping) = 1
    /\ Len(offset_mapping[1].lines[1].words) = 2

(***************************************************************************)
(* The demo (demo_offset_visualization.py): sample data and its tests.     *)
(***************************************************************************)
\* SAMPLE_REFLOWED_CONTENT, character by character
SAMPLE_REFLOWED_CONTENT ==
    <<"\n", "<", "!", "-", "-", " ", "P", "a", "g", "e", " ", "3", " ", "-", "-", ">",
      "\n", "1", " ", "|", " ", "I", "N", "D", "E", "X", "\n", "2", " ", "|", " ", "W",
      "I", "T", "N", "E", "S", "S", ":", " ", "D", "I", "R", "E", "C", "T", " ", "C",
      "R", "O", "S", "S", " ", "R", "E", "D", "I", "R", "E", "C", "T", " ", "R", "E",
      "C", "R", "O", "S", "S", "\n", "3", " ", "|", " ", "S", "u", "s", "a", "n", " ",
      "M", "i", "c", "h", "a", "u", "d", "\n", "6", " ", "|", " ", "E", "X", "H", "I",
      "B", "I", "T", "S", ":", " ", "E", "V", "I", "D", "E", "N", "C", "E", " ", "I",
      "D", "E", "N", "T", "I", "F", "I", "C", "A", "T", "I", "O", "N", "\n", "7", " ",
      "|", " ", "D", "i", "a", "g", "r", "a", "m", " ", "(", "P", "-", "1", ")", "\n",
      "6", "8", "2", "4", "9", "9", "3", "9", "2", "\n", "h", "t", "t", "p", ":", "/",
      "/", "l", "e", "g", "a", "c", "y", ".", "l", "i", "b", "r", "a", "r", "y", ".",
      "u", "c", "s", "f", ".", "e", "6", "u", "/", "t", "i", "d", "/", "f", "u", "q",
      "0", "7", "a", "0", "0", "/", "p", "d", "f", ".", "i", "n", "d", "u", "s", "t",
      "r", "y", "d", "o", "c", "u", "m", "e", "n", "t", "s", ".", "u", "c", "s", "f",
      ".", "e", "d", "u", "/", "d", "o", "c", "s", "/", "k", "h", "h", "l", "0", "0",
      "0", "1", "\n", "\n", "<", "!", "-", "-", " ", "P", "a", "g", "e", " ", "4", " ",
      "-", "-", ">", "\n", "1", " ", "|", " ", "S", "u", "s", "a", "n", " ", "M", "i",
      "c", "h", "a", "u", "d", ",", " ", "M", "-", "I", "-", "C", "-", "H", "-", "A",
      "-", "U", "-", "D", ",", " ", "s", "w", "o", "r", "n", " ", "b", "y", " ", "t",
      "h", "e", " ", "N", "o", "t", "a", "r", "y", " ", "P", "u", "b", "l", "i", "c",
      ",", "\n", "2", " ", "|", " ", "t", "e", "s", "t", "i", "f", "i", "e", "d", " ",
      "a", "s", " ", "f", "o", "l", "l", "o", "w", "s", ".", "\n", "3", " ", "|", " ",
      "D", "I", "R", "E", "C", "T", " ", "E", "X", "A", "M", "I", "N", "A", "T", "I",
      "O", "N", " ", "B", "Y", "\n", "4", " ", "|", " ", "M", "S", ".", " ", "B", "R",
      "I", "O", "D", "Y", ":", "\n", "5", " ", "|", " ", "Q", ".", " ", "S", "u", "s",
      "a", "n", ",", " ", "h", "o", "w", " ", "o", "l", "d", " ", "a", "r", "e", " ",
      "y", "o", "u", " ", "a", "t", " ", "t", "h", "e", " ", "p", "r", "e", "s", "e",
      "n", "t", " ", "t", "i", "m", "e", "?", "\n", "6", " ", "|", " ", "A", ".", " ",
      "J", "u", "s", "t", " ", "t", "u", "r", "n", "e", "d", " ", "t", "h", "i", "r",
      "t", "y", "-", "e", "i", "g", "h", "t", ".", "\n", "7", " ", "|", " ", "Q", ".",
      " ", "A", "n", "d", " ", "a", "r", "e", " ", "y", "o", "u", " ", "m", "a", "r",
      "r", "i", "e", "d", "?", "\n", "8", " ", "|", " ", "A", ".", " ", "Y", "e", "s",
      ",", " ", "I", " ", "a", "m", ".", "\n", "9", " ", "|", " ", "Q", ".", " ", "A",
      "n", "d", " ", "f", "o", "r", " ", "h", "o", "w", " ", "m", "a", "n", "y", " ",
      "y", "e", "a", "r", "s", " ", "h", "a", "v", "e", " ", "y", "o", "u", " ", "b",
      "e", "e", "n", " ", "m", "a", "r", "r", "i", "e", "d", "?", "\n", "1", "0", " ",
      "|", " ", "A", ".", " ", "N", "i", "n", "e", "t", "e", "e", "n", ".", "\n">>

SAMPLE_PAGE_3_LINE_1 ==
    [content |-> <<"1", " ", "|", " ", "I", "N", "D", "E", "X">>,
     offset |-> [start |-> 17, end |-> 26],
     bbox |-> "D(3,0.1994,0.5888,2.1336,0.5585,2.1471,0.9648,0.2128,0.9951)",
     words |-> <<[content |-> <<"1">>,
                offset |-> [start |-> 17, end |-> 18],
                bbox |-> "D(3,0.1994,0.5888,0.3995,0.5750,0.3995,0.9060,0.1475,0.9063)",
                originalOffset |-> 200],
               [content |-> <<"I", "N", "D", "E", "X">>,
                offset |-> [start |-> 21, end |-> 26],
                bbox |-> "D(3,0.5336,0.5585,2.1336,0.5585,2.1471,0.9648,0.5471,0.9951)",
                originalOffset |-> 205]>>]

SAMPLE_PAGE_3_LINE_2 ==
    [content |-> <<"2", " ", "|", " ", "W", "I", "T", "N", "E", "S", "S", ":", " ",
                   "D", "I", "R", "E", "C", "T", " ", "C", "R", "O", "S", "S", " ",
                   "R", "E", "D", "I", "R", "E", "C", "T", " ", "R", "E", "C", "R",
                   "O", "S", "S">>,
     offset |-> [start |-> 27, end |-> 69],
     bbox |-> "D(3,0.1994,1.0888,8.1336,1.0585,8.1471,1.4648,0.2128,1.4951)",
     words |-> <<[content |-> <<"2">>,
                offset |-> [start |-> 27, end |-> 28],
                bbox |-> "D(3,0.1994,1.0888,0.3995,1.0750,0.3995,1.4060,0.1475,1.4063)",
                originalOffset |-> 211],
               [content |-> <<"W", "I", "T", "N", "E", "S", "S", ":">>,
                offset |-> [start |-> 32, end |-> 40],
                bbox |-> "D(3,0.5336,1.0585,2.5336,1.0585,2.5471,1.4648,0.5471,1.4951)",
                originalOffset |-> 215]>>]

SAMPLE_PAGE_3_LINE_3 ==
    [content |-> <<"3", " ", "|", " ", "S", "u", "s", "a", "n", " ", "M", "i", "c",
                   "h", "a", "u", "d">>,
     offset |-> [start |-> 70, end |-> 87],
     bbox |-> "D(3,0.1994,1.5888,5.1336,1.5585,5.1471,1.9648,0.2128,1.9951)",
     words |-> <<[content |-> <<"3">>,
                offset |-> [start |-> 70, end |-> 71],
                bbox |-> "D(3,0.1994,1.5888,0.3995,1.5750,0.3995,1.9060,0.1475,1.9063)",
                originalOffset |-> 230],
               [content |-> <<"S", "u", "s", "a", "n">>,
                offset |-> [start |-> 75, end |-> 80],
                bbox |-> "D(3,0.5336,1.5585,1.8336,1.5585,1.8471,1.9648,0.5471,1.9951)",
                originalOffset |-> 235],
               [content |-> <<"M", "i", "c", "h", "a", "u", "d">>,
                offset |-> [start |-> 81, end |-> 88],
                bbox |-> "D(3,1.9336,1.5585,3.5336,1.5585,3.5471,1.9648,1.9471,1.9951)",
                originalOffset |-> 241]>>]

SAMPLE_PAGE_4_LINE_1 ==
    [content |-> <<"1", " ", "|", " ", "S", "u", "s", "a", "n", " ", "M", "i", "c",
                   "h", "a", "u", "d", ",", " ", "M", "-", "I", "-", "C", "-", "H",
                   "-", "A", "-", "U", "-", "D", ",", " ", "s", "w", "o", "r", "n",
                   " ", "b", "y", " ", "t", "h", "e", " ", "N", "o", "t", "a", "r",
                   "y", " ", "P", "u", "b", "l", "i", "c", ",">>,
     offset |-> [start |-> 260, end |-> 321],
     bbox |-> "D(4,0.1994,0.5888,12.1336,0.5585,12.1471,0.9648,0.2128,0.9951)",
     words |-> <<[content |-> <<"1">>,
                offset |-> [start |-> 260, end |-> 261],
                bbox |-> "D(4,0.1994,0.5888,0.3995,0.5750,0.3995,0.9060,0.1475,0.9063)",
                originalOffset |-> 1000],
               [content |-> <<"S", "u", "s", "a", "n">>,
                offset |-> [start |-> 265, end |-> 270],
                bbox |-> "D(4,0.5336,0.5585,1.8336,0.5585,1.8471,0.9648,0.5471,0.9951)",
                originalOffset |-> 1005],
               [content |-> <<"M", "i", "c", "h", "a", "u", "d", ",">>,
                offset |-> [start |-> 271, end |-> 279],
                bbox |-> "D(4,1.9336,0.5585,3.5336,0.5585,3.5471,0.9648,1.9471,0.9951)",
                originalOffset |-> 1011]>>]

SAMPLE_PAGE_4_LINE_2 ==
    [content |-> <<"2", " ", "|", " ", "t", "e", "s", "t", "i", "f", "i", "e", "d",
                   " ", "a", "s", " ", "f", "o", "l", "l", "o", "w", "s", ".">>,
     offset |-> [start |-> 322, end |-> 347],
     bbox |-> "D(4,0.1994,1.0888,6.1336,1.0585,6.1471,1.4648,0.2128,1.4951)",
     words |-> <<[content |-> <<"2">>,
                offset |-> [start |-> 322, end |-> 323],
                bbox |-> "D(4,0.1994,1.0888,0.3995,1.0750,0.3995,1.4060,0.1475,1.4063)",
                originalOffset |-> 1050],
               [content |-> <<"t", "e", "s", "t", "i", "f", "i", "e", "d">>,
                offset |-> [start |-> 327, end |-> 336],
                bbox |-> "D(4,0.5336,1.0585,2.5336,1.0585,2.5471,1.4648,0.5471,1.4951)",
                originalOffset |-> 1055]>>]

\* SAMPLE_OFFSET_MAPPING["pages"]
SAMPLE_OFFSET_MAPPING ==
    <<[pageNumber |-> 3, offset |-> [start |-> 1, end |-> 242],
      lines |-> <<SAMPLE_PAGE_3_LINE_1, SAMPLE_PAGE_3_LINE_2, SAMPLE_PAGE_3_LINE_3>>],
      [pageNumber |-> 4, offset |-> [start |-> 244, end |-> 500],
      lines |-> <<SAMPLE_PAGE_4_LINE_1, SAMPLE_PAGE_4_LINE_2>>]>>

\* how far the arguments of the tests are moved away from the sample
MaxShift == 3

Newlines(k) == [i \in 1..k |-> NL]

\* the sample text behind k more newlines
DemoContents == {Newlines(k) \o SAMPLE_REFLOWED_CONTENT : k \in 0..MaxShift}

ShiftSpan(o, d) == [start |-> o.start + d, end |-> o.end + d]

ShiftWord(w, d) == [w EXCEPT !.offset = ShiftSpan(@, d)]

ShiftLine(l, d) ==
    [l EXCEPT !.offset = ShiftSpan(@, d),
              !.words = [i \in 1..Len(@) |-> ShiftWord(@[i], d)]]

ShiftPage(pg, d) ==
    [pg EXCEPT !.offset = ShiftSpan(@, d),
               !.lines = [i \in 1..Len(@) |-> ShiftLine(@[i], d)]]

\* the sample mapping with every offset moved by d
ShiftMapping(mapping, d) == [i \in 1..Len(mapping) |-> ShiftPage(mapping[i], d)]

DemoMappings == {ShiftMapping(SAMPLE_OFFSET_MAPPING, d) : d \in 0..MaxShift}

\* mutant: the extraction takes one character more
line_matches_one_more(content, line) ==
    Slice(content, line.offset.start, line.offset.end + 1) = line.content

\* "extracted == expected" for content[start:end] and line["content"]
line_matches(content, line) ==
    Slice(content, line.offset.start, line.offset.end) = line.content

\* page["lines"][:3]
tested_lines(pg) == SubSeq(pg.lines, 1, Min2(3, Len(pg.lines)))

InitDemo ==
    /\ ReflowIdle
    /\ UnitsIdle
    /\ demo_pc = "test"
    /\ demo_content \in DemoContents
    /\ demo_mapping \in DemoMappings
    /\ demo_page = 1
    /\ demo_line = 1
    /\ test_count = 0
    /\ pass_count = 0
    /\ demo_result = FALSE
    /\ demo_word = 1
    /\ word_matches = <<>>

demo_inputs == <<demo_content, demo_mapping>>

\* test_offset_accuracy: one line of "for i, line in enumerate(page['lines'][:3])"
TestLine ==
    /\ demo_pc = "test"
    /\ demo_page <= Len(demo_mapping)
    /\ demo_line <= Len(tested_lines(demo_mapping[demo_page]))
    /\ test_count' = test_count + 1
    /\ pass_count' =
           IF line_matches(demo_content, tested_lines(demo_mapping[demo_page])[demo_line])
           THEN pass_count + 1 ELSE pass_count
    /\ demo_line' = demo_line + 1
    /\ UNCHANGED <<reflow_vars, unit_vars, demo_inputs, demo_pc, demo_page,
                   demo_result, demo_word, word_matches>>

\* test_offset_accuracy: the lines of the page are done
NextTestPage ==
    /\ demo_pc = "test"
    /\ demo_page <= Len(demo_mapping)
    /\ demo_line > Len(tested_lines(demo_mapping[demo_page]))
    /\ demo_page' = demo_page + 1
    /\ demo_line' = 1
    /\ UNCHANGED <<reflow_vars, unit_vars, demo_inputs, demo_pc, test_count,
                   pass_count, demo_result, demo_word, word_matches>>

\* test_offset_accuracy: "return pass_count == test_count"
ReturnTest ==
    /\ demo_pc = "test"
    /\ demo_page > Len(demo_mapping)
    /\ demo_result' = (pass_count = test_count)
    /\ demo_pc' = "words"
    /\ UNCHANGED <<reflow_vars, unit_vars, demo_inputs, demo_page, demo_line,
                   test_count, pass_count, demo_word, word_matches>>

\* mapping["pages"][0]["lines"][0]
first_line == demo_mapping[1].lines[1]

\* demonstrate_word_level_offsets: one word of the first line
ShowWord ==
    /\ demo_pc = "words"
    /\ demo_word <= Len(first_line.words)
    /\ LET word == first_line.words[demo_word]
           extracted == Slice(demo_content, word.offset.start, word.offset.end)
       IN  word_matches' = Append(word_matches, extracted = word.content)
    /\ demo_word' = demo_word + 1
    /\ UNCHANGED <<reflow_vars, unit_vars, demo_inputs, demo_pc, demo_page,
                   demo_line, test_count, pass_count, demo_result>>

\* demonstrate_word_level_offsets returns
EndWords ==
    /\ demo_pc = "words"
    /\ demo_word > Len(first_line.words)
    /\ demo_pc' = "done"
    /\ UNCHANGED <<reflow_vars, unit_vars, demo_inputs, demo_page, demo_line,
                   test_count, pass_count, demo_result, demo_word, word_matches>>

NextDemo ==
    \/ TestLine
    \/ NextTestPage
    \/ ReturnTest
    \/ ShowWord
    \/ EndWords

SpecDemo == InitDemo /\ [][NextDemo]_vars

\* the arguments main() passes
OnSample ==
    demo_content = SAMPLE_REFLOWED_CONTENT /\ demo_mapping = SAMPLE_OFFSET_MAPPING

\* the lines of a mapping, with the tests' field names
RECURSIVE SampleLinesOf(_)
SampleLinesOf(mapping) ==
    IF mapping = <<>> THEN <<>>
    ELSE Head(mapping).lines \o SampleLinesOf(Tail(mapping))

\* C19: every line of SAMPLE_OFFSET_MAPPING extracts exactly its content from
\* SAMPLE_REFLOWED_CONTENT, so test_offset_accuracy returns true on the sample.
C19_SampleLines ==
    OnSample =>
        /\ \A l \in Range(SampleLinesOf(demo_mapping)) :
               Slice(demo_content, l.offset.start, l.offset.end) = l.content
        /\ demo_pc \in {"words", "done"} =>
               /\ demo_result
               /\ test_count = Len(SampleLinesOf(demo_mapping))
               /\ pass_count = test_count

\* main() has run the tests on the sample
C19_Witness ==
    /\ OnSample
    /\ demo_pc = "done"
    /\ demo_result
    /\ test_count = 5

\* C20: every word of SAMPLE_OFFSET_MAPPING has correct offsets: the characters
\* of SAMPLE_REFLOWED_CONTENT from start to end are the word's content, and the
\* word's range lies inside the range of the line that owns it.
C20_SampleWords ==
    OnSample =>
        \A l \in Range(SampleLinesOf(demo_mapping)) : \A w \in Range(l.words) :
            /\ Slice(demo_content, w.offset.start, w.offset.end) = w.content
            /\ l.offset.start <= w.offset.start
            /\ w.offset.end <= l.offset.end

\* the words demonstrate_word_level_offsets shows, those of the first line of
\* the first page, do match on the sample
FirstLineWordsMatch ==
    (OnSample /\ demo_pc = "done") => word_matches = <<TRUE, TRUE>>

\* the tests tell a moved mapping from the sample
MovedMappingFails ==
    (demo_pc = "done" /\ demo_content = SAMPLE_REFLOWED_CONTENT
        /\ demo_mapping # SAMPLE_OFFSET_MAPPING) => ~demo_result


(***************************************************************************)
(* The two groupers.                                                       *)
(***************************************************************************)
\* an element of the offset-tracking variant without its bbox: the element
\* the plain variant builds from the same line
Plain(e) ==
    [content |-> e.content, y_position |-> e.y_position, x_position |-> e.x_position,
     page_number |-> e.page_number, is_line_number |-> e.is_line_number]

PlainGroups(groups) ==
    [k \in 1..Len(groups) |-> [j \in 1..Len(groups[k]) |-> Plain(groups[k][j])]]

PlainElements(elements) == [j \in 1..Len(elements) |-> Plain(elements[j])]

\* C21: on every list of elements the grouper of the plain variant and the
\* grouper of the offset-tracking variant return the same groups.
C21_SameGroups ==
    pc = "rows" =>
        LET elements == extract_lines_from_page(page)
        IN  /\ line_groups = group_lines_by_vertical_position(elements)
            /\ PlainGroups(line_groups) =
                   plain_group_lines_by_vertical_position(PlainElements(elements))

(***************************************************************************)
(* Rows and chains.                                                        *)
(***************************************************************************)
\* the units of the groups in the order of the groups
RECURSIVE Flat(_)
Flat(groups) == IF groups = <<>> THEN <<>> ELSE Head(groups) \o Flat(Tail(groups))

\* the row of the n-th unit of Flat(groups)
RECURSIVE RowOf(_, _)
RowOf(groups, n) ==
    IF n <= Len(Head(groups)) THEN 1 ELSE 1 + RowOf(Tail(groups), n - Len(Head(groups)))

\* units a and b of a list sorted by topY are linked by a chain whose
\* consecutive units differ by at most the tolerance
Chained(sorted, a, b) ==
    \A n \in a..(b - 1) : sorted[n + 1].y_position - sorted[n].y_position <= y_tolerance

\* chained units share a row
Transitive(groups) ==
    LET sorted == Flat(groups)
    IN  \A a, b \in 1..Len(sorted) :
            (a < b /\ Chained(sorted, a, b)) => RowOf(groups, a) = RowOf(groups, b)

\* the groups of the plain variant for the page
plain_line_groups ==
    plain_group_lines_by_vertical_position(plain_extract_lines_from_page(page))

\* C22 as stated: any two units of a page linked by a chain of units in which
\* each consecutive pair differs in topY by at most the tolerance end up in
\* the same row.
C22_TransitiveRows ==
    pc = "rows" => Transitive(line_groups) /\ Transitive(plain_line_groups)

\* every unit of a row is within the tolerance of the row's first unit, and
\* the first unit of a row is at least the tolerance below the first unit of
\* the row before
Anchored(groups) ==
    /\ \A k \in 1..Len(groups) : \A j \in 1..Len(groups[k]) :
           /\ groups[k][j].y_position >= groups[k][1].y_position
           /\ groups[k][j].y_position - groups[k][1].y_position <= y_tolerance
    /\ \A k \in 2..Len(groups) :
           groups[k][1].y_position - groups[k - 1][1].y_position >= y_tolerance

\* C22 amended: rows are clustered around an anchor, not transitively: every
\* unit of a row differs in topY from the row's first unit by at most the
\* tolerance, and a unit farther than the tolerance from that anchor opens a
\* new row even when it is within the tolerance of the unit before it.
C22_AnchoredRows ==
    pc = "rows" =>
        /\ Flat(line_groups) = SortedByY(extract_lines_from_page(page))
        /\ Anchored(line_groups)
        /\ Anchored(plain_line_groups)

\* three units 0.13 and 0.10 apart: the third is 0.23 below the first
C22_Witness ==
    /\ pc = "rows"
    /\ page.lines = <<L_c, L_7, L_2>>
    /\ Len(line_groups) = 2
    /\ Len(line_groups[1]) = 2
    /\ Chained(Flat(line_groups), 1, 3)

(***************************************************************************)
(* The order of the lines in the source.                                   *)
(***************************************************************************)
\* the page with its lines n and n + 1 exchanged
Exchanged(p, n) ==
    Page(p.pageNumber,
         [k \in 1..Len(p.lines) |->
             IF k = n THEN p.lines[n + 1] ELSE IF k = n + 1 THEN p.lines[n]
             ELSE p.lines[k]])

\* the rows as sets of units, from top to bottom
RowSets(groups) == [k \in 1..Len(groups) |-> Range(groups[k])]

\* the page q has the rows and the text of the page under way (both variants)
SameRowsAs(q) ==
    /\ RowSets(group_lines_by_vertical_position(extract_lines_from_page(q)))
           = RowSets(line_groups)
    /\ RowSets(plain_group_lines_by_vertical_position(plain_extract_lines_from_page(q)))
           = RowSets(plain_line_groups)

SameTextAs(q) ==
    /\ reflow_page_with_line_numbers_and_offsets(q, separator, 0).text
           = reflow_page_with_line_numbers_and_offsets(page, separator, 0).text
    /\ reflow_page_with_line_numbers(q, separator)
           = reflow_page_with_line_numbers(page, separator)

\* the page function has grouped the page and visited no row yet
PageGrouped == pc = "rows" /\ group_index = 1

\* C23 as stated: for every permutation of a page's lines the grouper produces
\* the same rows (same sets of units, same top-to-bottom order) and the page's
\* reflowed text is the same.  Exchanges of neighbours generate every
\* permutation.
C23_OrderIndependent ==
    PageGrouped =>
        \A n \in 1..(Len(page.lines) - 1) :
            SameRowsAs(Exchanged(page, n)) /\ SameTextAs(Exchanged(page, n))

\* no two units of the page have the same topY and the same leftX
DistinctCorners ==
    LET elements == extract_lines_from_page(page)
    IN  \A a, b \in 1..Len(elements) :
            (a # b /\ elements[a].y_position = elements[b].y_position)
                => elements[a].x_position # elements[b].x_position

\* C23 amended: for every permutation of a page's lines the grouper produces
\* the same rows (same sets of units, same top-to-bottom order); the page's
\* reflowed text is the same when no two units of the page have both the same
\* topY and the same leftX (such units keep the order of the source).
C23_RowsOrderIndependent ==
    PageGrouped =>
        \A n \in 1..(Len(page.lines) - 1) :
            /\ SameRowsAs(Exchanged(page, n))
            /\ DistinctCorners => SameTextAs(Exchanged(page, n))

\* a row of three units that the source lists from right to left
C23_Witness ==
    /\ PageGrouped
    /\ page.lines = <<L_c, L_INDEX, L_1>>
    /\ DistinctCorners
    /\ Len(line_groups) = 1
    /\ Len(line_groups[1]) = 3

(***************************************************************************)
(* The page function and its starting offset.                              *)
(***************************************************************************)
Moved(o, c) == [start |-> o.start + c, end |-> o.end + c]

MovedWord(w, c) == [w EXCEPT !.offset = Moved(@, c)]

MovedLine(l, c) ==
    [l EXCEPT !.offset = Moved(@, c),
              !.words = [i \in 1..Len(@) |-> MovedWord(@[i], c)]]

MovedPage(info, c) ==
    [info EXCEPT !.offset = Moved(@, c),
                 !.lines = [i \in 1..Len(@) |-> MovedLine(@[i], c)]]

\* the page function at starting offset c is the page function at 0, moved
ShiftOf(p, c) ==
    LET at_c == reflow_page_with_line_numbers_and_offsets(p, separator, c)
        at_0 == reflow_page_with_line_numbers_and_offsets(p, separator, 0)
    IN  /\ at_c.text = at_0.text
        /\ at_c.page_offset_info = MovedPage(at_0.page_offset_info, c)

\* C24: reflow_page_with_line_numbers_and_offsets(page, separator, c) returns
\* the text it returns with starting offset 0, and every page, line and word
\* span it returns is the span of starting offset 0 with c added to start and
\* end; the run of the page function from the cursor of the document agrees.
C24_ShiftInvariant ==
    /\ pc \in {"pages", "rows", "done"} =>
           \A i \in 1..Len(pages) : ShiftOf(pages[i], current_offset)
    /\ RowsDone =>
           LET at_0 == reflow_page_with_line_numbers_and_offsets(page, separator, 0)
           IN  /\ Join(<<NL>>, output_lines) = at_0.text
               /\ PageOffsetInfo(page.pageNumber, page_start_offset, page_offset,
                                  line_offset_infos)
                      = MovedPage(at_0.page_offset_info, page_start_offset)

\* the second page of a document runs from a cursor that is not 0
C24_Witness ==
    /\ RowsDone
    /\ page_index = 2
    /\ page_start_offset > 0
    /\ line_offset_infos # <<>>
    /\ Len(line_offset_infos[1].words) = 2

(***************************************************************************)
(* The cursor of the document between pages.                               *)
(***************************************************************************)
\* the page function returns a text that is not empty
EmitsPage == RowsDone /\ Join(<<NL>>, output_lines) # <<>>

\* a later page of the document is emitted (no target page is set)
LaterPageEmitted ==
    \E j \in (page_index + 1)..Len(pages) :
        reflow_page_with_line_numbers_and_offsets(pages[j], separator, 0).text # <<>>

\* C25: with no target page the cursor of the document is advanced by one for
\* the separator after each emitted page except the final emitted page; after
\* the final emitted page it is not advanced.
C25_SeparatorAdvance ==
    [][(EmitsPage /\ target_page = <<>>) =>
          current_offset' = current_offset + Len(Join(<<NL>>, output_lines))
                               + (IF LaterPageEmitted THEN 1 ELSE 0)]_vars

\* what the code does: one more after every emitted page, the final included
AdvancesAfterEveryPage ==
    [][(EmitsPage /\ target_page = <<>>) =>
          current_offset' = current_offset + Len(Join(<<NL>>, output_lines)) + 1]_vars

(***************************************************************************)
(* The offset tree.                                                        *)
(***************************************************************************)
Within(inner, outer) == outer.start <= inner.start /\ inner.end <= outer.end

\* the words of a line lie within the line
WordsWithin(l) == \A w \in Range(l.words) : Within(w.offset, l.offset)

\* C26: in every mapping reflow_document_with_offsets returns, each WordSpan
\* lies within the LineSpan that owns it and each LineSpan within the PageSpan
\* that owns it.
C26_Nested ==
    /\ \A i \in 1..Len(offset_mapping) :
           \A l \in Range(offset_mapping[i].lines) :
               Within(l.offset, offset_mapping[i].offset) /\ WordsWithin(l)
    /\ pc = "rows" => \A l \in Range(line_offset_infos) : WordsWithin(l)

\* a returned mapping of two pages whose first line has a number and a word
C26_Witness ==
    /\ pc = "done"
    /\ Len(offset_mapping) = 2
    /\ Len(offset_mapping[1].lines[1].words) = 2
    /\ offset_mapping[2].lines # <<>>

\* every span of a mapping: pages, their lines, the words of the lines
SpansOf(mapping) ==
    {mapping[i].offset : i \in 1..Len(mapping)}
        \cup {l.offset : l \in Range(LinesOf(mapping))}
        \cup {w.offset : w \in Range(WordsOf(LinesOf(mapping)))}

\* C27: every span of the returned mapping, PageSpans included, stays inside
\* the returned text: 0 <= start <= end <= length of the text of the same
\* call, in single-page and in multi-page mode.
C27_SpansInsideText ==
    pc = "done" =>
        \A s \in SpansOf(offset_mapping) :
            0 <= s.start /\ s.start <= s.end /\ s.end <= Len(reflowed_content)

\* the spans of lines and words stay inside the text when the one page that
\* declares the target is asked for
TargetLinesInsideText ==
    (pc = "done" /\ target_page # <<>> /\ Cardinality(Declaring) = 1) =>
        \A s \in {l.offset : l \in Range(LinesOf(offset_mapping))}
                  \cup {w.offset : w \in Range(WordsOf(LinesOf(offset_mapping)))} :
            0 <= s.start /\ s.start <= s.end /\ s.end <= Len(reflowed_content)

\* the page span of a single emitted page ends one past the text
TargetPageEndsPastText ==
    (pc = "done" /\ target_page # <<>> /\ Len(offset_mapping) = 1
        /\ offset_mapping[1].lines # <<>>) =>
        offset_mapping[1].offset.end = Len(reflowed_content) + 1

(***************************************************************************)
(* Pages without output.                                                   *)
(***************************************************************************)
\* the page function of the offset-tracking variant returns "" for the page
YieldsNothing(p) ==
    reflow_page_with_line_numbers_and_offsets(p, separator, 0).text = <<>>

\* the plain page function returns "" for the page
PlainYieldsNothing(p) == reflow_page_with_line_numbers(p, separator) = <<>>

\* the document without the processed pages the plain page function returns
\* "" for
WithoutBarrenPages ==
    LET barren(p) == ~filtered_out(p) /\ PlainYieldsNothing(p)
        kept == SelectSeq(pages, LAMBDA p : ~barren(p))
    IN  Document(json_data.contents[1].kind, kept)

\* the loop of the offset-tracking variant takes up a processed page without
\* output and leaves text parts, mapping and cursor as they are
OffsetBarrenPageNoEffect ==
    [][(pc = "pages" /\ page_index <= Len(pages) /\ ~filtered_out(page)
            /\ YieldsNothing(page)) =>
          /\ output_parts' = output_parts
          /\ offset_mapping' = offset_mapping
          /\ current_offset' = current_offset]_vars

\* the plain variant returns what it returns without those pages
PlainBarrenPageNoEffect ==
    plain_pc = "done" =>
        IF WithoutBarrenPages.contents[1].pages = <<>> THEN plain_content = <<>>
        ELSE plain_content = reflow_document(WithoutBarrenPages, target_page, separator).text

\* C28: a processed page that yields no output line (no usable units, or every
\* row of it lacks content) contributes nothing: no character of output (no
\* page marker), no PageSpan and no cursor advance, in the plain variant and in
\* the offset-tracking variant.
C28_BarrenPageNoEffect == OffsetBarrenPageNoEffect /\ []PlainBarrenPageNoEffect

\* of the offset-tracking variant this much holds: no PageSpan, and with a
\* target page no character and no cursor advance
OffsetBarrenPageNoSpan ==
    [][(pc = "pages" /\ page_index <= Len(pages) /\ ~filtered_out(page)
            /\ YieldsNothing(page)) =>
          /\ offset_mapping' = offset_mapping
          /\ target_page # <<>> =>
                 output_parts' = output_parts /\ current_offset' = current_offset]_vars

(***************************************************************************)
(* Units and their spans.                                                  *)
(***************************************************************************)
\* the unit has text and valid geometry
IsUsableUnit(line) ==
    Strip(line.content) # <<>> /\ parse_source_coordinates(line.source).ok

\* a usable unit that is neither noise nor a line number
IsContentUnit(line) ==
    /\ IsUsableUnit(line)
    /\ ~IsGlyphOrSymbol(Strip(line.content))
    /\ ~IsNumberInRange(Strip(line.content))

\* the WordSpans of the page that come from the unit
SpansOfUnit(words, line) ==
    Cardinality({j \in 1..Len(words) :
                    words[j].content = Strip(line.content) /\ words[j].bbox = line.source})

\* the content units of the page like this one: same text, same descriptor
ContentUnitsLike(lines, line) ==
    Cardinality({k \in 1..Len(lines) :
                    /\ IsContentUnit(lines[k])
                    /\ Strip(lines[k].content) = Strip(line.content)
                    /\ lines[k].source = line.source})

\* the usable units of the page like this one
UsableUnitsLike(lines, line) ==
    Cardinality({k \in 1..Len(lines) :
                    /\ IsUsableUnit(lines[k])
                    /\ Strip(lines[k].content) = Strip(line.content)
                    /\ lines[k].source = line.source})

\* the content elements of the rows of the plain variant that come from the unit
RECURSIVE PlainContentOfUnit(_, _)
PlainContentOfUnit(groups, line) ==
    IF groups = <<>> THEN 0
    ELSE LET parsed == parse_source_coordinates(line.source)
             elements == content_elements_of(Head(groups))
         IN  Cardinality({j \in 1..Len(elements) :
                             /\ elements[j].content = Strip(line.content)
                             /\ elements[j].x_position = parsed.left_x
                             /\ elements[j].y_position = parsed.top_y})
                 + PlainContentOfUnit(Tail(groups), line)

\* the content units of the page with this one's text and rectangle
PlainUnitsLike(lines, line) ==
    Cardinality({k \in 1..Len(lines) :
                    /\ IsContentUnit(lines[k])
                    /\ Strip(lines[k].content) = Strip(line.content)
                    /\ parse_source_coordinates(lines[k].source)
                           = parse_source_coordinates(line.source)})

\* every content unit of the page has its one WordSpan and its one place in
\* the rows of the plain variant, and every WordSpan has its one unit
UnitsAndSpansAgree ==
    LET words == WordsOf(line_offset_infos)
        lines == page.lines
    IN  /\ \A k \in 1..Len(lines) :
               IsContentUnit(lines[k]) =>
                   /\ SpansOfUnit(words, lines[k]) = ContentUnitsLike(lines, lines[k])
                   /\ PlainContentOfUnit(plain_line_groups, lines[k])
                          = PlainUnitsLike(lines, lines[k])
        /\ \A j \in 1..Len(words) :
               \E k \in 1..Len(lines) :
                   /\ IsUsableUnit(lines[k])
                   /\ words[j].content = Strip(lines[k].content)
                   /\ words[j].bbox = lines[k].source
                   /\ SpansOfUnit(words, lines[k]) <= UsableUnitsLike(lines, lines[k])

\* C29: no content is lost or duplicated: every unit of an emitted page that
\* has valid geometry and is content (not noise, not a line number) appears in
\* exactly one output line and has exactly one WordSpan in the mapping, and
\* every WordSpan comes from exactly one unit of that page.
C29_NoContentLost == (RowsDone /\ output_lines # <<>>) => UnitsAndSpansAgree

\* a unit whose text makes is_line_number raise
RaisesInPage == \E k \in 1..Len(page.lines) : is_line_number_raises(page.lines[k].content)

\* on pages where is_line_number raises for no unit, nothing is lost
NoContentLostUnlessRaised ==
    (RowsDone /\ output_lines # <<>> /\ ~RaisesInPage) => UnitsAndSpansAgree

(***************************************************************************)
(* The rectangle of a descriptor.                                          *)
(***************************************************************************)
IsNormalized(r) == r.left_x <= r.right_x /\ r.top_y <= r.bottom_y

\* C30: the rectangle parse_source_coordinates returns is normalized: for
\* every descriptor it accepts (8 or 4 coordinates), left <= right and
\* top <= bottom.
C30_Normalized ==
    (unit_pc = "parsed" /\ unit_parsed.ok) => IsNormalized(unit_parsed)

\* the corners are where the descriptor's order says: the left corners not to
\* the right of the right ones, the upper corners not below the lower ones;
\* width and height are not negative
CornersInOrder(source) ==
    LET c == source.coords
    IN  IF Len(c) = 8
        THEN /\ \A l \in {c[1], c[7]} : \A r \in {c[3], c[5]} : l <= r
             /\ \A t \in {c[2], c[4]} : \A b \in {c[6], c[8]} : t <= b
        ELSE c[3] >= 0 /\ c[4] >= 0

\* descriptors with their corners in order give a normalized rectangle
NormalizedWhenInOrder ==
    (unit_pc = "parsed" /\ unit_parsed.ok /\ CornersInOrder(unit_source))
        => IsNormalized(unit_parsed)

=============================================================================
